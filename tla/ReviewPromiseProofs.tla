------------------------ MODULE ReviewPromiseProofs ------------------------
(***************************************************************************)
(* HitlStore implements ReviewPromise: every step maps to a step of the    *)
(* abstract specification, in which a verdict on an item comes from a      *)
(* human and anything that was saved may be undone or vanish.              *)
(***************************************************************************)
EXTENDS HitlStoreProofs

-----------------------------------------------------------------------------
(* What the entries of a team's lists show.                                *)

\* An item shows that it waits, or a verdict that was given on it.
StatusOK(lists, g) ==
    \A l \in {"checkpoints", "experiences"} : \A n \in DOMAIN lists[l] :
        lists[l][n].kind # "memory" =>
            lists[l][n].status \in
                {"pending"} \cup g[<<lists[l][n].kind, lists[l][n].task>>]

ListStatusOK(s, g) ==
    \A n \in DOMAIN s : s[n].kind # "memory" =>
        s[n].status \in {"pending"} \cup g[<<s[n].kind, s[n].task>>]

LEMMA StatusByList ==
    \A lists, g : StatusOK(lists, g) <=> /\ ListStatusOK(lists.checkpoints, g)
                                        /\ ListStatusOK(lists.experiences, g)
BY DEF StatusOK, ListStatusOK

LEMMA StatusGrows ==
    ASSUME NEW lists \in Lists, NEW g, NEW h, StatusOK(lists, g),
           \A i \in Items : g[i] \subseteq h[i]
    PROVE  StatusOK(lists, h)
<1> SUFFICES ASSUME NEW l \in {"checkpoints", "experiences"},
                    NEW n \in DOMAIN lists[l], lists[l][n].kind # "memory"
             PROVE  lists[l][n].status \in
                        {"pending"} \cup h[<<lists[l][n].kind, lists[l][n].task>>]
    BY DEF StatusOK
<1>1. lists[l] \in Seq(Entries)
    BY DEF Lists
<1>2. lists[l][n] \in Entries
    BY <1>1, ElementOfSeq
<1>3. <<lists[l][n].kind, lists[l][n].task>> \in Items
    BY <1>2 DEF Entries, Items, Kinds
<1> QED  BY <1>3 DEF StatusOK

LEMMA LastOfLast ==
    ASSUME NEW S, NEW s \in Seq(S), NEW n \in Nat \ {0}, Len(s) > 0
    PROVE  Len(LastOf(s, n)) > 0
<1>1. CASE Len(s) > n
    <2>1. PICK d \in Nat : d + n = Len(s)
        BY <1>1
    <2>2. d + 1 \in 1 .. Len(s) + 1 /\ LastOf(s, n) = SubSeq(s, d + 1, Len(s))
        BY <1>1, <2>1 DEF LastOf
    <2> QED  BY <2>1, <2>2, SubSeqProperties
<1>2. CASE ~(Len(s) > n)
    BY <1>2 DEF LastOf
<1> QED  BY <1>1, <1>2

\* The list c holds the entry e and otherwise elements of s.
Inserts(c, s, e) ==
    /\ \E i \in DOMAIN c : c[i] = e
    /\ \A i \in DOMAIN c : c[i] = e \/ \E j \in DOMAIN s : c[i] = s[j]

LEMMA ElementsInserted ==
    ASSUME NEW s \in Seq(Entries), NEW e \in Entries, NEW n \in Nat \ {0}
    PROVE  Inserts(LastOf(Append(s, e), n), s, e)
<1> DEFINE a == Append(s, e)
           c == LastOf(a, n)
<1>1. a \in Seq(Entries) /\ Len(a) = Len(s) + 1 /\ a[Len(s) + 1] = e
      /\ \A i \in 1 .. Len(s) : a[i] = s[i]
    BY AppendProperties
<1> HIDE DEF a
<1>2. c \in Seq(Entries) /\ Len(c) > 0
    BY <1>1, LastOfSuffix, LastOfLast
<1>3. PICK d \in Nat : /\ Len(c) + d = Len(a)
                       /\ \A i \in DOMAIN c : i + d \in DOMAIN a /\ c[i] = a[i + d]
    BY <1>1, LastOfSuffix
<1> HIDE DEF c
<1>4. Len(c) \in DOMAIN c /\ c[Len(c)] = e
    BY <1>1, <1>2, <1>3
<1>5. ASSUME NEW i \in DOMAIN c PROVE c[i] = e \/ \E j \in DOMAIN s : c[i] = s[j]
    <2>1. i + d \in 1 .. Len(s) + 1
        BY <1>1, <1>3
    <2>2. CASE i + d = Len(s) + 1
        BY <1>1, <1>3, <2>2
    <2>3. CASE i + d \in 1 .. Len(s)
        BY <1>1, <1>3, <2>3
    <2> QED  BY <2>1, <2>2, <2>3
<1>6. Inserts(c, s, e)
    BY <1>4, <1>5 DEF Inserts
<1> QED  BY <1>6 DEF a, c

\* Inserting an item that waits, or an outcome that is no item.
LEMMA StatusInserted ==
    ASSUME NEW lists \in Lists, NEW g, NEW e \in Entries, StatusOK(lists, g),
           e.kind # "memory" => e.status = "pending"
    PROVE  /\ StatusOK(Inserted(lists, e), g)
           /\ Has(Inserted(lists, e), e)
<1> DEFINE l == ListOf(e.kind)
           n == Cap[e.kind]
           s == lists[l]
           c == LastOf(Append(s, e), n)
<1>1. n \in Nat \ {0} /\ l \in {"checkpoints", "experiences"}
    BY StoreAssumption DEF Cap, Entries, Kinds, ListOf
<1>2. s \in Seq(Entries) /\ ListStatusOK(s, g)
    BY <1>1, StatusByList DEF Lists
<1>3. Inserts(c, s, e)
    <2> HIDE DEF l, n, s
    <2> QED  BY <1>1, <1>2, ElementsInserted
<1>4. Inserted(lists, e) = [lists EXCEPT ![l] = c]
    BY DEF Inserted
<1> HIDE DEF c
<1>5. ListStatusOK(c, g)
    <2> HIDE DEF s
    <2> QED  BY <1>2, <1>3 DEF Inserts, ListStatusOK
<1>6. \A k \in {"checkpoints", "experiences"} :
        Inserted(lists, e)[k] = IF k = l THEN c ELSE lists[k]
    BY <1>1, <1>4 DEF Lists
<1>7. StatusOK(Inserted(lists, e), g)
    <2> HIDE DEF l
    <2>1. CASE l = "checkpoints"
        BY <1>5, <1>6, <2>1, StatusByList
    <2>2. CASE l = "experiences"
        BY <1>5, <1>6, <2>2, StatusByList
    <2> QED  BY <1>1, <2>1, <2>2
<1>8. Has(Inserted(lists, e), e)
    BY <1>1, <1>3, <1>6 DEF Inserts, Has, SameItem
<1> QED  BY <1>7, <1>8

\* A decision, once its verdict counts as given.
LEMMA StatusDecided ==
    ASSUME NEW lists \in Lists, NEW g, NEW e \in Entries, StatusOK(lists, g),
           e.status \in g[<<e.kind, e.task>>]
    PROVE  /\ StatusOK(Decided(lists, e), g)
           /\ Has(lists, e) => Has(Decided(lists, e), e)
           /\ \A n \in DOMAIN Decided(lists, e)[ListOf(e.kind)] :
                SameItem(Decided(lists, e)[ListOf(e.kind)][n], e) =>
                    Decided(lists, e)[ListOf(e.kind)][n] = e
<1> DEFINE l == ListOf(e.kind)
           s == lists[l]
           c == [i \in DOMAIN s |-> IF SameItem(s[i], e) THEN e ELSE s[i]]
<1>1. l \in {"checkpoints", "experiences"}
    BY DEF ListOf
<1>2. ListStatusOK(s, g)
    BY <1>1, StatusByList
<1>3. ListStatusOK(c, g)
    BY <1>2 DEF ListStatusOK
<1>4. Decided(lists, e) = [lists EXCEPT ![l] = c]
    BY DEF Decided
<1>5. \A n \in DOMAIN c : SameItem(c[n], e) => c[n] = e
    OBVIOUS
<1>6. Has(lists, e) => \E n \in DOMAIN c : SameItem(c[n], e)
    BY DEF Has, SameItem
<1> HIDE DEF c
<1>7. \A k \in {"checkpoints", "experiences"} :
        Decided(lists, e)[k] = IF k = l THEN c ELSE lists[k]
    BY <1>1, <1>4 DEF Lists
<1>8. StatusOK(Decided(lists, e), g)
    <2> HIDE DEF l
    <2>1. CASE l = "checkpoints"
        BY <1>3, <1>7, <2>1, StatusByList
    <2>2. CASE l = "experiences"
        BY <1>3, <1>7, <2>2, StatusByList
    <2> QED  BY <1>1, <2>1, <2>2
<1> QED  BY <1>1, <1>5, <1>6, <1>7, <1>8 DEF Has

-----------------------------------------------------------------------------
(* The inductive invariant: copies, however stale, show no verdict that    *)
(* was not given, and a decision is about an item of its copy.             *)

CopyStatusOK(p) ==
    /\ at[p] \in {"loaded", "reloaded"} => StatusOK(frame[p].copy, given)
    /\ at[p] = "reloaded" =>
         \A k \in Teams : StatusOK(frame[p].base[k], given)
    /\ p \in Tasks /\ at[p] # "idle" /\ frame[p].entry.kind # "memory" =>
         frame[p].entry.status = "pending"
    /\ p \in Reviewers /\ at[p] \in {"loaded", "reloaded"} =>
         Has(frame[p].copy, frame[p].entry)

PromiseInv ==
    /\ StoreInv
    /\ \A k \in Teams : StatusOK(doc[k], given)
    /\ \A p \in Processes : CopyStatusOK(p)
    /\ \A i \in Items : i \notin submitted => given[i] = {}

\* A step of p, as HitlStoreProofs describes it.
LEMMA StatusOfOthers ==
    ASSUME PromiseInv, StoreInv', NEW p \in Processes,
           \A q \in Processes \ {p} : at'[q] = at[q] /\ frame'[q] = frame[q],
           \A i \in Items : given[i] \subseteq given'[i],
           \A k \in Teams : StatusOK(doc'[k], given'), CopyStatusOK(p)',
           \A i \in Items : i \notin submitted' => given'[i] = {}
    PROVE  PromiseInv'
<1>1. SUFFICES ASSUME NEW q \in Processes \ {p}
               PROVE  CopyStatusOK(q)'
    BY DEF PromiseInv
<1>2. CopyStatusOK(q) /\ at'[q] = at[q] /\ frame'[q] = frame[q] /\ ProcessOK(q)
    BY DEF PromiseInv, StoreInv
<1>3. /\ frame[q].copy \in Lists
      /\ at[q] = "reloaded" => frame[q].base \in [Teams -> Lists]
    BY <1>2 DEF ProcessOK, FrameOK
<1>4. ASSUME at[q] \in {"loaded", "reloaded"}
      PROVE  StatusOK(frame[q].copy, given')
    <2>1. frame[q].copy \in Lists /\ StatusOK(frame[q].copy, given)
        BY <1>2, <1>3, <1>4 DEF CopyStatusOK
    <2> QED  BY <2>1, StatusGrows
<1>5. ASSUME at[q] = "reloaded", NEW k \in Teams
      PROVE  StatusOK(frame[q].base[k], given')
    <2>1. frame[q].base[k] \in Lists /\ StatusOK(frame[q].base[k], given)
        BY <1>2, <1>3, <1>5 DEF CopyStatusOK
    <2> QED  BY <2>1, StatusGrows
<1> QED  BY <1>2, <1>4, <1>5 DEF CopyStatusOK

\* A step that leaves the document alone and ends outside load and save.
LEMMA QuietStep ==
    ASSUME PromiseInv, StoreInv', NEW p \in Processes,
           UNCHANGED <<doc, submitted, given>>,
           \A q \in Processes \ {p} : at'[q] = at[q] /\ frame'[q] = frame[q],
           at'[p] \notin {"loaded", "reloaded"}, p \in Tasks => at'[p] = "idle"
    PROVE  PromiseInv'
<1>1. CopyStatusOK(p)'
    BY DEF CopyStatusOK
<1> QED  BY <1>1, StatusOfOthers DEF PromiseInv

LEMMA LoadStep ==
    ASSUME PromiseInv, StoreInv', NEW p \in Processes, NEW team \in Teams,
           NEW e \in Entries, Load(p, team, e),
           p \in Tasks /\ e.kind # "memory" => e.status = "pending",
           p \in Reviewers => Has(doc[team], e)
    PROVE  PromiseInv'
<1>1. UNCHANGED <<doc, submitted, given>> /\ StoreInv
    BY DEF Load, observers, PromiseInv
<1>2. /\ at'[p] = "loaded" /\ frame'[p].copy = doc[team] /\ frame'[p].entry = e
      /\ \A q \in Processes \ {p} : at'[q] = at[q] /\ frame'[q] = frame[q]
    BY <1>1, Loaded
<1>3. CopyStatusOK(p)'
    BY <1>1, <1>2 DEF CopyStatusOK, PromiseInv
<1> QED  BY <1>1, <1>2, <1>3, StatusOfOthers DEF PromiseInv

LEMMA ReloadStatus ==
    ASSUME PromiseInv, StoreInv', NEW p \in Processes, Reload(p)
    PROVE  PromiseInv'
<1> DEFINE base == [doc EXCEPT ![frame[p].team] = EmptyLists]
<1>1. StoreInv /\ ProcessOK(p) /\ CopyStatusOK(p) /\ at[p] = "loaded"
    BY DEF PromiseInv, StoreInv, Reload
<1>2. /\ UNCHANGED <<doc, submitted, given>> /\ at' = [at EXCEPT ![p] = "reloaded"]
      /\ frame' = [frame EXCEPT ![p] = [frame[p] EXCEPT !.base = base]]
    BY DEF Reload, observers
<1>3. StatusOK(EmptyLists, given)
    BY DEF StatusOK, EmptyLists
<1>4. \A k \in Teams : StatusOK(base[k], given)
    BY <1>1, <1>3 DEF PromiseInv, StoreInv, SharedOK
<1> HIDE DEF base
<1>5. /\ at'[p] = "reloaded" /\ frame'[p] = [frame[p] EXCEPT !.base = base]
      /\ \A q \in Processes \ {p} : at'[q] = at[q] /\ frame'[q] = frame[q]
    BY <1>1, <1>2 DEF StoreInv, SharedOK
<1>6. DOMAIN frame[p] = {"team", "entry", "copy", "base", "draft"}
    BY <1>1 DEF ProcessOK, FrameOK, NoFrame
<1>7. /\ frame'[p].entry = frame[p].entry /\ frame'[p].copy = frame[p].copy
      /\ frame'[p].base = base
    BY <1>5, <1>6
<1>8. CopyStatusOK(p)'
    BY <1>1, <1>2, <1>4, <1>5, <1>7 DEF CopyStatusOK
<1> QED  BY <1>2, <1>5, <1>8, StatusOfOthers DEF PromiseInv

\* The document after a save, if the lists show given verdicts only.
LEMMA SavedStatus ==
    ASSUME PromiseInv, NEW p \in Processes, NEW lists, Save(p, lists),
           \A i \in Items : given[i] \subseteq given'[i], StatusOK(lists, given')
    PROVE  \A k \in Teams : StatusOK(doc'[k], given')
<1>1. ProcessOK(p) /\ CopyStatusOK(p) /\ at[p] = "reloaded"
    BY DEF PromiseInv, StoreInv, Save
<1>2. /\ frame[p].base \in [Teams -> Lists] /\ frame[p].team \in Teams
      /\ \A k \in Teams : StatusOK(frame[p].base[k], given)
    BY <1>1 DEF ProcessOK, FrameOK, CopyStatusOK
<1>3. \A k \in Teams : StatusOK(frame[p].base[k], given')
    BY <1>2, StatusGrows
<1> QED
    BY <1>2, <1>3 DEF Save

LEMMA SubmissionStatus ==
    ASSUME PromiseInv, StoreInv', NEW t \in Tasks, SaveSubmission(t)
    PROVE  /\ PromiseInv'
           /\ Has(doc'[TeamOf[t]], frame[t].entry)
           /\ frame[t].entry.kind = stage[t] /\ frame[t].entry.task = t
<1> DEFINE e == frame[t].entry
           lists == Inserted(frame[t].copy, e)
<1>1. /\ t \in Processes /\ t \notin Reviewers /\ StoreInv /\ ProcessOK(t)
      /\ CopyStatusOK(t) /\ at[t] = "reloaded" /\ Return(t)
    BY StoreAssumption
    DEF PromiseInv, StoreInv, Processes, SaveSubmission, Save
<1>2. /\ e \in Entries /\ frame[t].copy \in Lists /\ frame[t].team = TeamOf[t]
      /\ e.kind = stage[t] /\ e.task = t /\ StatusOK(frame[t].copy, given)
      /\ e.kind # "memory" => e.status = "pending"
    BY <1>1 DEF ProcessOK, FrameOK, SubmissionOK, CopyStatusOK
<1>3. StatusOK(lists, given) /\ Has(lists, e)
    BY <1>2, StatusInserted
<1>4. given' = given /\ submitted \subseteq submitted' /\ Save(t, lists)
    BY DEF SaveSubmission
<1> HIDE DEF lists
<1>5. \A k \in Teams : StatusOK(doc'[k], given')
    BY <1>1, <1>3, <1>4, SavedStatus
<1>6. CopyStatusOK(t)'
    BY <1>1, Returned DEF CopyStatusOK
<1>7. PromiseInv'
    BY <1>1, <1>4, <1>5, <1>6, Returned, StatusOfOthers DEF PromiseInv
<1>8. doc'[TeamOf[t]] = lists
    BY <1>1, <1>2, <1>4, StoreAssumption DEF Save, ProcessOK, FrameOK
<1> QED  BY <1>2, <1>3, <1>7, <1>8

LEMMA DecisionStatus ==
    ASSUME PromiseInv, StoreInv', NEW r \in Reviewers, SaveDecision(r)
    PROVE  LET e == frame[r].entry
               k == TeamOf[e.task]
           IN  /\ PromiseInv'
               /\ <<e.kind, e.task>> \in submitted /\ e.status \in Verdicts
               /\ given' = [given EXCEPT ![<<e.kind, e.task>>] = @ \cup {e.status}]
               /\ Has(doc'[k], e)
               /\ \A n \in DOMAIN doc'[k][ListOf(e.kind)] :
                     SameItem(doc'[k][ListOf(e.kind)][n], e) =>
                         doc'[k][ListOf(e.kind)][n] = e
<1> DEFINE e == frame[r].entry
           i == <<e.kind, e.task>>
           copy == frame[r].copy
           lists == Decided(copy, e)
<1>1. /\ r \in Processes /\ r \notin Tasks /\ StoreInv /\ ProcessOK(r)
      /\ CopyStatusOK(r) /\ at[r] = "reloaded"
    BY StoreAssumption
    DEF PromiseInv, StoreInv, Processes, SaveDecision, Save
<1>2. /\ e \in Entries /\ copy \in Lists /\ frame[r].team \in Teams
      /\ i \in Items /\ e.status \in Verdicts
      /\ StatusOK(copy, given) /\ Has(copy, e)
      /\ TeamLists(copy, frame[r].team, submitted)
    BY <1>1
    DEF ProcessOK, FrameOK, DecisionOK, CopyStatusOK, CopiesOK, Entries, Items
<1>3. i \in submitted /\ TeamOf[e.task] = frame[r].team
    <2>1. ListOf(e.kind) \in {"checkpoints", "experiences"}
        BY DEF ListOf
    <2>2. OwnItems(copy[ListOf(e.kind)], ListOf(e.kind), frame[r].team, submitted)
        BY <1>2, <2>1 DEF TeamLists
    <2> QED  BY <1>2, <2>2 DEF Has, OwnItems, SameItem
<1>4. /\ UNCHANGED submitted /\ Save(r, lists)
      /\ given' = [given EXCEPT ![i] = given[i] \cup {e.status}]
    BY DEF SaveDecision
<1>5. \A j \in Items : given[j] \subseteq given'[j] /\ (j # i => given'[j] = given[j])
    <2> HIDE DEF e, i
    <2> QED  BY <1>1, <1>2, <1>4 DEF StoreInv, SharedOK
<1>6. e.status \in given'[i]
    <2> HIDE DEF e, i
    <2> QED  BY <1>1, <1>2, <1>4 DEF StoreInv, SharedOK
<1>7. StatusOK(copy, given')
    BY <1>2, <1>5, StatusGrows
<1>8. /\ StatusOK(lists, given') /\ Has(lists, e)
      /\ \A n \in DOMAIN lists[ListOf(e.kind)] :
            SameItem(lists[ListOf(e.kind)][n], e) => lists[ListOf(e.kind)][n] = e
    BY <1>2, <1>6, <1>7, StatusDecided
<1> HIDE DEF lists
<1>9. \A k \in Teams : StatusOK(doc'[k], given')
    BY <1>1, <1>4, <1>5, <1>8, SavedStatus
<1>10. \A j \in Items : j \notin submitted' => given'[j] = {}
    BY <1>3, <1>4, <1>5 DEF PromiseInv
<1>11. CopyStatusOK(r)' /\ \A q \in Processes \ {r} : at'[q] = at[q] /\ frame'[q] = frame[q]
    <2>1. CASE e.kind = "experience" /\ e.status = "approved"
        <3>1. at' = [at EXCEPT ![r] = "approved"] /\ frame' = frame
            BY <2>1 DEF SaveDecision
        <3>2. at'[r] = "approved"
            BY <1>1, <3>1 DEF StoreInv, SharedOK
        <3> QED  BY <1>1, <3>1, <3>2 DEF CopyStatusOK, StoreInv, SharedOK
    <2>2. CASE ~(e.kind = "experience" /\ e.status = "approved")
        <3>1. Return(r)
            BY <2>2 DEF SaveDecision
        <3> QED  BY <1>1, <3>1, Returned DEF CopyStatusOK
    <2> QED  BY <2>1, <2>2
<1>12. PromiseInv'
    BY <1>1, <1>5, <1>9, <1>10, <1>11, StatusOfOthers
<1>13. doc'[frame[r].team] = lists
    BY <1>1, <1>2, <1>4 DEF Save, ProcessOK, FrameOK
<1>14. /\ Has(doc'[TeamOf[e.task]], e)
       /\ \A n \in DOMAIN doc'[TeamOf[e.task]][ListOf(e.kind)] :
             SameItem(doc'[TeamOf[e.task]][ListOf(e.kind)][n], e) =>
                 doc'[TeamOf[e.task]][ListOf(e.kind)][n] = e
    <2> HIDE DEF e
    <2> QED  BY <1>3, <1>8, <1>13
<1>15. i \in submitted /\ e.status \in Verdicts
    BY <1>2, <1>3
<1> QED  BY <1>4, <1>12, <1>14, <1>15

LEMMA NextStatus == PromiseInv /\ [Next]_vars => PromiseInv'
<1> SUFFICES ASSUME PromiseInv, [Next]_vars PROVE PromiseInv'
    OBVIOUS
<1>1. StoreInv /\ StoreInv'
    BY NextStore DEF PromiseInv
<1>2. CASE UNCHANGED vars
    BY <1>1, <1>2 DEF vars, observers, PromiseInv, CopyStatusOK
<1>3. ASSUME NEW t \in Tasks, TaskStep(t) PROVE PromiseInv'
    <2>1. t \in Processes /\ t \notin Reviewers
        BY StoreAssumption DEF Processes
    <2>2. CASE Submit(t)
        <3> DEFINE e == [kind |-> stage[t], task |-> t,
                         status |-> IF stage[t] = "memory" THEN "memory"
                                    ELSE "pending"]
        <3>1. Load(t, TeamOf[t], e) /\ e \in Entries /\ TeamOf[t] \in Teams
            BY <2>2, StoreAssumption DEF Submit, Entries
        <3>2. e.kind # "memory" => e.status = "pending"
            OBVIOUS
        <3> HIDE DEF e
        <3> QED  BY <1>1, <2>1, <3>1, <3>2, LoadStep
    <2>3. CASE NothingToSubmit(t)
        BY <1>1, <2>1, <2>3, QuietStep DEF NothingToSubmit, observers
    <2>4. CASE SaveSubmission(t)
        BY <1>1, <2>4, SubmissionStatus
    <2>5. CASE TaskFails(t)
        BY <1>1, <2>1, <2>5, Returned, QuietStep DEF TaskFails, observers
    <2> QED  BY <1>3, <2>2, <2>3, <2>4, <2>5 DEF TaskStep
<1>4. ASSUME NEW r \in Reviewers, Review(r) PROVE PromiseInv'
    <2>1. r \in Processes /\ r \notin Tasks
        BY StoreAssumption DEF Processes
    <2>2. ASSUME NEW team \in Teams, NEW i \in Items, NEW v \in Verdicts,
                 Decide(r, team, i, v)
          PROVE  PromiseInv'
        <3> DEFINE e == [kind |-> i[1], task |-> i[2], status |-> v]
        <3>1. Load(r, team, e) /\ e \in Entries /\ Has(doc[team], e)
            BY <2>2 DEF Decide, Entries, Items, Kinds
        <3> HIDE DEF e
        <3> QED  BY <1>1, <2>1, <3>1, LoadStep
    <2>3. CASE SaveDecision(r)
        BY <1>1, <2>3, DecisionStatus
    <2>4. CASE NoNewVersion(r) \/ ReviewFails(r) \/ WriteVersion(r)
        BY <1>1, <2>1, <2>4, Returned, QuietStep
        DEF NoNewVersion, ReviewFails, WriteVersion, observers
    <2>5. CASE ReadSkill(r)
        BY <1>1, <2>1, <2>5, QuietStep
        DEF ReadSkill, observers, StoreInv, SharedOK
    <2>6. CASE OpenVersion(r)
        BY <1>1, <2>1, <2>6, QuietStep
        DEF OpenVersion, observers, StoreInv, SharedOK
    <2> QED  BY <1>4, <2>2, <2>3, <2>4, <2>5, <2>6 DEF Review
<1>5. ASSUME NEW p \in Processes, Reload(p) PROVE PromiseInv'
    BY <1>1, <1>5, ReloadStatus
<1> QED  BY <1>2, <1>3, <1>4, <1>5 DEF Next

LEMMA InitStatus == Init => PromiseInv
<1> SUFFICES ASSUME Init PROVE PromiseInv
    OBVIOUS
<1>1. StatusOK(EmptyLists, given)
    BY DEF StatusOK, EmptyLists
<1> QED  BY <1>1, InitStore DEF Init, PromiseInv, CopyStatusOK

-----------------------------------------------------------------------------
(* The refinement mapping.                                                 *)

\* The list that shows item i, and its entries for i.
ListShowing(i) == doc[TeamOf[i[2]]][ListOf(i[1])]
Showing(i) == {n \in DOMAIN ListShowing(i) :
                  SameItem(ListShowing(i)[n], [kind |-> i[1], task |-> i[2]])}

LEMMA ShownDefinition ==
    \A i \in Items :
        Shown(i) = IF Showing(i) # {}
                   THEN ListShowing(i)[CHOOSE n \in Showing(i) : TRUE].status
                   ELSE IF i \in submitted THEN "lost" ELSE "none"
BY DEF Shown, Showing, ListShowing

\* What the document shows of an item in any state, and in a state that has
\* entries for it.
ItemShownOK(i) ==
    /\ i \notin submitted => Shown(i) = "none"
    /\ i \in submitted => Shown(i) \in {"pending", "lost"} \cup given[i]
    /\ Showing(i) # {} => Shown(i) \in {"pending"} \cup given[i]

LEMMA ShownByInv == PromiseInv => \A i \in Items : ItemShownOK(i)
<1> SUFFICES ASSUME PromiseInv, NEW i \in Items
             PROVE  ItemShownOK(i)
    OBVIOUS
<1> DEFINE k == TeamOf[i[2]]
           l == ListOf(i[1])
           n == CHOOSE m \in Showing(i) : TRUE
<1>1. /\ k \in Teams /\ l \in {"checkpoints", "experiences"}
      /\ i = <<i[1], i[2]>> /\ i[1] # "memory"
    BY StoreAssumption DEF ListOf, Items
<1>2. OwnItems(doc[k][l], l, k, submitted) /\ StatusOK(doc[k], given)
    BY <1>1 DEF PromiseInv, StoreInv, SharedOK, TeamLists
<1>3. ASSUME Showing(i) # {}
      PROVE  i \in submitted /\ ListShowing(i)[n].status \in {"pending"} \cup given[i]
    <2>1. n \in Showing(i)
        BY <1>3
    <2> HIDE DEF n
    <2>2. /\ n \in DOMAIN doc[k][l] /\ ListShowing(i)[n] = doc[k][l][n]
          /\ doc[k][l][n].kind = i[1] /\ doc[k][l][n].task = i[2]
        BY <2>1 DEF Showing, ListShowing, SameItem
    <2> HIDE DEF k, l
    <2> QED  BY <1>1, <1>2, <2>2 DEF OwnItems, StatusOK
<1> QED  BY <1>3, ShownDefinition DEF ItemShownOK

LEMMA ShownByInvNext == PromiseInv' => (\A i \in Items : ItemShownOK(i))'
BY ShownByInv, PTL

\* A decision that was saved is what the document shows.
ShownIfOnlyOne ==
    \A i \in Items : \A v :
        /\ Showing(i) # {}
        /\ \A n \in Showing(i) : ListShowing(i)[n].status = v
        => Shown(i) = v

LEMMA ShownIfDecided == ShownIfOnlyOne
BY ShownDefinition DEF ShownIfOnlyOne

LEMMA ShownIfDecidedNext == ShownIfOnlyOne'
BY ShownIfDecided, PTL

ItemStep(i) ==
    \/ /\ Shown(i) = "none" /\ Shown(i)' \in {"none", "pending"}
       /\ given'[i] = given[i]
    \/ /\ Shown(i) # "none"
       /\ \E v \in Verdicts : given'[i] = given[i] \cup {v} /\ Shown(i)' = v
    \/ /\ Shown(i) # "none" /\ Shown(i)' \in {"pending", "lost"} \cup given[i]
       /\ given'[i] = given[i]

LEMMA GivenVerdicts ==
    ASSUME PromiseInv, NEW i \in Items
    PROVE  given[i] \subseteq Verdicts
BY DEF PromiseInv, StoreInv, SharedOK

LEMMA OtherItemStep ==
    ASSUME PromiseInv, PromiseInv', NEW i \in Items, given'[i] = given[i],
           i \in submitted' <=> i \in submitted
    PROVE  ItemStep(i)
<1>1. ItemShownOK(i)
    BY ShownByInv
<1>2. /\ i \notin submitted' => Shown(i)' = "none"
      /\ i \in submitted' => Shown(i)' \in {"pending", "lost"} \cup given'[i]
    BY ShownByInvNext DEF ItemShownOK
<1>3. Shown(i) # "none" <=> i \in submitted
    BY <1>1, GivenVerdicts DEF ItemShownOK, Verdicts
<1> QED  BY <1>2, <1>3 DEF ItemStep

LEMMA SubmissionPromise ==
    ASSUME PromiseInv, PromiseInv', NEW t \in Tasks, SaveSubmission(t),
           NEW i \in Items
    PROVE  ItemStep(i)
<1> DEFINE e == frame[t].entry
<1>1. /\ Has(doc'[TeamOf[t]], e) /\ e.kind = stage[t] /\ e.task = t
    BY SubmissionStatus DEF PromiseInv
<1>2. /\ given' = given /\ submitted' = submitted \cup {<<stage[t], t>>}
    BY DEF SaveSubmission
<1>3. CASE i = <<stage[t], t>> /\ i \notin submitted
    <2>1. Showing(i)' # {}
        BY <1>1, <1>3 DEF Showing, ListShowing, Has, SameItem
    <2>2. ItemShownOK(i)
        BY ShownByInv
    <2>3. (\A j \in Items : ItemShownOK(j))'
        BY ShownByInvNext
    <2>4. Shown(i)' \in {"pending"} \cup given'[i]
        BY <2>1, <2>3 DEF ItemShownOK
    <2>5. given[i] = {}
        BY <1>3 DEF PromiseInv
    <2> QED  BY <1>2, <1>3, <2>2, <2>4, <2>5 DEF ItemShownOK, ItemStep
<1>4. CASE ~(i = <<stage[t], t>> /\ i \notin submitted)
    BY <1>2, <1>4, OtherItemStep
<1> QED  BY <1>3, <1>4

LEMMA DecisionPromise ==
    ASSUME PromiseInv, PromiseInv', NEW r \in Reviewers, SaveDecision(r),
           NEW i \in Items
    PROVE  ItemStep(i)
<1> DEFINE e == frame[r].entry
           k == TeamOf[e.task]
           j == <<e.kind, e.task>>
<1>1. /\ j \in submitted /\ e.status \in Verdicts
      /\ given' = [given EXCEPT ![j] = given[j] \cup {e.status}]
      /\ Has(doc'[k], e)
      /\ \A n \in DOMAIN doc'[k][ListOf(e.kind)] :
            SameItem(doc'[k][ListOf(e.kind)][n], e) =>
                doc'[k][ListOf(e.kind)][n] = e
    BY DecisionStatus DEF PromiseInv
<1>2. given \in [Items -> SUBSET Verdicts] /\ submitted' = submitted
    BY DEF PromiseInv, StoreInv, SharedOK, SaveDecision
<1>3. CASE i = j
    <2>1. i[1] = e.kind /\ i[2] = e.task
        BY <1>3
    <2>2. Showing(i)' # {} /\ \A n \in Showing(i)' : ListShowing(i)'[n].status = e.status
        BY <1>1, <2>1 DEF Showing, ListShowing, Has, SameItem
    <2>4. Shown(i)' = e.status
        BY <2>2, ShownIfDecidedNext DEF ShownIfOnlyOne
    <2>5. Shown(i) # "none"
        BY <1>1, <1>3, ShownByInv, GivenVerdicts DEF ItemShownOK, Verdicts
    <2>6. given'[i] = given[i] \cup {e.status}
        <3> HIDE DEF e, j
        <3> QED  BY <1>1, <1>2, <1>3
    <2> QED  BY <1>1, <2>4, <2>5, <2>6 DEF ItemStep
<1>4. CASE i # j
    <2>1. given'[i] = given[i]
        <3> HIDE DEF e, j
        <3> QED  BY <1>1, <1>2, <1>4
    <2> QED  BY <1>2, <2>1, OtherItemStep
<1> QED  BY <1>3, <1>4

\* Every step is one step of the abstract specification for each item.
LEMMA NextPromise ==
    PromiseInv /\ PromiseInv' /\ [Next]_vars => \A i \in Items : ItemStep(i)
<1> SUFFICES ASSUME PromiseInv, PromiseInv', [Next]_vars, NEW i \in Items
             PROVE  ItemStep(i)
    OBVIOUS
<1>1. CASE UNCHANGED vars
    BY <1>1, OtherItemStep DEF vars, observers
<1>2. ASSUME NEW t \in Tasks, TaskStep(t) PROVE ItemStep(i)
    <2>1. CASE SaveSubmission(t)
        BY <2>1, SubmissionPromise
    <2>2. CASE Submit(t) \/ NothingToSubmit(t) \/ TaskFails(t)
        BY <2>2, OtherItemStep
        DEF Submit, NothingToSubmit, TaskFails, Load, observers
    <2> QED  BY <1>2, <2>1, <2>2 DEF TaskStep
<1>3. ASSUME NEW r \in Reviewers, Review(r) PROVE ItemStep(i)
    <2>1. CASE SaveDecision(r)
        BY <2>1, DecisionPromise
    <2>2. ASSUME NEW team \in Teams, NEW j \in Items, NEW v \in Verdicts,
                 Decide(r, team, j, v)
          PROVE  ItemStep(i)
        BY <2>2, OtherItemStep DEF Decide, Load, observers
    <2>3. CASE \/ NoNewVersion(r) \/ ReadSkill(r) \/ OpenVersion(r)
               \/ WriteVersion(r) \/ ReviewFails(r)
        BY <2>3, OtherItemStep
        DEF NoNewVersion, ReadSkill, OpenVersion, WriteVersion, ReviewFails,
            observers
    <2> QED  BY <1>3, <2>1, <2>2, <2>3 DEF Review
<1>4. ASSUME NEW p \in Processes, Reload(p) PROVE ItemStep(i)
    BY <1>4, OtherItemStep DEF Reload, observers
<1> QED  BY <1>1, <1>2, <1>3, <1>4 DEF Next

\* Through all interleavings of loads and saves, for any teams, tasks,
\* dashboards and caps, what a poller sees of an item is what ReviewPromise
\* allows: TaskGraph waits for its checkpoints on these terms.
THEOREM PromiseKept == Spec => KeepsPromise
<1>1. Init => Promise!Init
    <2> SUFFICES ASSUME Init PROVE Promise!Init
        OBVIOUS
    <2>1. \A i \in Items : Shown(i) = "none"
        BY InitStatus, ShownByInv DEF Init, ItemShownOK
    <2> QED  BY <2>1 DEF Init, Promise!Init
<1>2. (\A i \in Items : ItemStep(i)) => [Promise!Next]_(Promise!vars)
    BY DEF ItemStep, Verdicts, Promise!Next, Promise!Opens, Promise!IsAnswered,
       Promise!IsOverwritten, Promise!Verdicts
<1> QED
    BY <1>1, <1>2, InitStatus, NextStatus, NextPromise, PTL
    DEF Spec, KeepsPromise, Promise!Spec

=============================================================================
