-------------------------- MODULE HitlStoreProofs --------------------------
(***************************************************************************)
(* Theorems about HitlStore for any teams, tasks and reviewers, any caps   *)
(* and any lessons.                                                        *)
(***************************************************************************)
EXTENDS HitlStore, SequenceTheorems, TLAPS

-----------------------------------------------------------------------------
(* The two changes an operation makes to its copy of a team's lists.       *)

\* LastOf keeps a suffix of at most n elements.
LEMMA LastOfSuffix ==
    ASSUME NEW S, NEW s \in Seq(S), NEW n \in Nat \ {0}
    PROVE  /\ LastOf(s, n) \in Seq(S)
           /\ Len(LastOf(s, n)) <= n
           /\ \E d \in Nat :
                /\ Len(LastOf(s, n)) + d = Len(s)
                /\ \A i \in DOMAIN LastOf(s, n) :
                     i + d \in DOMAIN s /\ LastOf(s, n)[i] = s[i + d]
<1>1. CASE Len(s) > n
    <2>1. PICK d \in Nat : d + n = Len(s)
        BY <1>1
    <2>2. d + 1 \in 1 .. Len(s) + 1 /\ LastOf(s, n) = SubSeq(s, d + 1, Len(s))
        BY <1>1, <2>1 DEF LastOf
    <2> DEFINE c == LastOf(s, n)
    <2>3. c \in Seq(S) /\ Len(c) = n /\ \A i \in 1 .. n : c[i] = s[d + i]
        BY <2>1, <2>2, SubSeqProperties
    <2> HIDE DEF c
    <2>4. \A i \in DOMAIN c : i + d \in DOMAIN s /\ c[i] = s[i + d]
        BY <2>1, <2>3
    <2>5. Len(c) + d = Len(s)
        BY <2>1, <2>3
    <2> QED  BY <2>3, <2>4, <2>5 DEF c
<1>2. CASE ~(Len(s) > n)
    <2>1. LastOf(s, n) = s
        BY <1>2 DEF LastOf
    <2>2. Len(s) + 0 = Len(s) /\ \A i \in DOMAIN s : i + 0 = i
        OBVIOUS
    <2>3. \A i \in DOMAIN s : i + 0 \in DOMAIN s /\ s[i] = s[i + 0]
        BY <2>2
    <2>4. Len(s) <= n
        BY <1>2
    <2> QED  BY <2>1, <2>2, <2>3, <2>4
<1> QED  BY <1>1, <1>2

\* The lists of a team hold its own items, which were submitted, each once
\* and in the list of its kind.
OwnItems(s, l, k, items) ==
    /\ \A i \in DOMAIN s : /\ TeamOf[s[i].task] = k
                           /\ <<s[i].kind, s[i].task>> \in items
                           /\ ListOf(s[i].kind) = l
    /\ \A i, j \in DOMAIN s : SameItem(s[i], s[j]) => i = j

TeamLists(lists, k, items) ==
    /\ lists \in Lists /\ WithinCaps(lists)
    /\ OwnItems(lists.checkpoints, "checkpoints", k, items)
    /\ OwnItems(lists.experiences, "experiences", k, items)

LEMMA TeamListsGrow ==
    ASSUME NEW lists, NEW k, NEW items, NEW more, items \subseteq more,
           TeamLists(lists, k, items)
    PROVE  TeamLists(lists, k, more)
BY DEF TeamLists, OwnItems

LEMMA EmptyTeamLists ==
    \A k, items : TeamLists(EmptyLists, k, items)
BY StoreAssumption DEF TeamLists, OwnItems, EmptyLists, Lists, WithinCaps

\* A new item at the end, and the oldest ones dropped.
LEMMA OwnItemsInsert ==
    ASSUME NEW s \in Seq(Entries), NEW l, NEW k, NEW items, NEW e \in Entries,
           NEW n \in Nat \ {0}, OwnItems(s, l, k, items), TeamOf[e.task] = k,
           ListOf(e.kind) = l, <<e.kind, e.task>> \notin items
    PROVE  OwnItems(LastOf(Append(s, e), n), l, k,
                    items \cup {<<e.kind, e.task>>})
<1> DEFINE a == Append(s, e)
           more == items \cup {<<e.kind, e.task>>}
<1>1. a \in Seq(Entries) /\ Len(a) = Len(s) + 1 /\ a[Len(s) + 1] = e
      /\ \A i \in 1 .. Len(s) : a[i] = s[i]
    BY AppendProperties
<1>2. OwnItems(a, l, k, more)
    <2>1. \A i \in DOMAIN a : /\ TeamOf[a[i].task] = k
                              /\ <<a[i].kind, a[i].task>> \in more
                              /\ ListOf(a[i].kind) = l
        BY <1>1 DEF OwnItems
    <2>2. \A i \in 1 .. Len(s) : ~SameItem(s[i], e) /\ ~SameItem(e, s[i])
        BY DEF OwnItems, SameItem
    <2>3. ASSUME NEW i \in DOMAIN a, NEW j \in DOMAIN a, SameItem(a[i], a[j])
          PROVE  i = j
        <3>1. CASE i \in 1 .. Len(s) /\ j \in 1 .. Len(s)
            BY <1>1, <2>3, <3>1 DEF OwnItems
        <3>2. CASE i = Len(s) + 1 /\ j \in 1 .. Len(s)
            BY <1>1, <2>2, <2>3, <3>2
        <3>3. CASE i \in 1 .. Len(s) /\ j = Len(s) + 1
            BY <1>1, <2>2, <2>3, <3>3
        <3> QED  BY <1>1, <3>1, <3>2, <3>3
    <2> QED  BY <2>1, <2>3 DEF OwnItems
<1> DEFINE c == LastOf(a, n)
<1>3. PICK d \in Nat : \A i \in DOMAIN c : i + d \in DOMAIN a /\ c[i] = a[i + d]
    BY <1>1, LastOfSuffix, ZenonT(30)
<1>4. c \in Seq(Entries)
    BY <1>1, LastOfSuffix
<1>5. \A i \in DOMAIN c : i \in Nat
    BY <1>4
<1> HIDE DEF a, c, more
<1>6. OwnItems(c, l, k, more)
    <2>1. \A i, j \in DOMAIN c : SameItem(c[i], c[j]) => i + d = j + d
        BY <1>2, <1>3 DEF OwnItems
    <2> QED  BY <1>2, <1>3, <1>5, <2>1 DEF OwnItems
<1> QED  BY <1>6 DEF a, c, more

LEMMA InsertedTeamLists ==
    ASSUME NEW lists, NEW k, NEW items, NEW e \in Entries,
           TeamLists(lists, k, items), TeamOf[e.task] = k,
           <<e.kind, e.task>> \notin items
    PROVE  TeamLists(Inserted(lists, e), k, items \cup {<<e.kind, e.task>>})
<1> DEFINE more == items \cup {<<e.kind, e.task>>}
           l == ListOf(e.kind)
           n == Cap[e.kind]
           s == LastOf(Append(lists[l], e), n)
<1>1. /\ lists \in Lists /\ lists.checkpoints \in Seq(Entries)
      /\ lists.experiences \in Seq(Entries)
    BY DEF TeamLists, Lists
<1>2. n \in Nat \ {0} /\ l \in {"checkpoints", "experiences"}
    BY StoreAssumption DEF Cap, Entries, Kinds, ListOf
<1>3. OwnItems(s, l, k, more)
    BY <1>1, <1>2, OwnItemsInsert DEF TeamLists
<1>4. s \in Seq(Entries) /\ Len(s) <= n
    BY <1>1, <1>2, AppendProperties, LastOfSuffix
<1>5. /\ OwnItems(lists.checkpoints, "checkpoints", k, more)
      /\ OwnItems(lists.experiences, "experiences", k, more)
    BY DEF TeamLists, OwnItems
<1>6. Inserted(lists, e) = [lists EXCEPT ![l] = s]
    BY DEF Inserted
<1>7. CASE e.kind = "checkpoint"
    <2>1. l = "checkpoints" /\ n = MaxCheckpoints
        BY <1>7 DEF ListOf, Cap
    <2> HIDE DEF s, n, more, l
    <2>2. /\ Inserted(lists, e) \in Lists
          /\ Inserted(lists, e).checkpoints = s
          /\ Inserted(lists, e).experiences = lists.experiences
        BY <1>1, <1>4, <1>6, <2>1 DEF Lists
    <2> QED
        BY <1>3, <1>4, <1>5, <2>1, <2>2 DEF TeamLists, WithinCaps, more
<1>8. CASE e.kind # "checkpoint"
    <2>1. l = "experiences" /\ n \in {MaxMemories, MaxExperiences}
        BY <1>8 DEF ListOf, Cap, Entries, Kinds
    <2> HIDE DEF s, n, more, l
    <2>2. /\ Inserted(lists, e) \in Lists
          /\ Inserted(lists, e).experiences = s
          /\ Inserted(lists, e).checkpoints = lists.checkpoints
        BY <1>1, <1>4, <1>6, <2>1 DEF Lists
    <2> QED
        BY <1>3, <1>4, <1>5, <2>1, <2>2 DEF TeamLists, WithinCaps, more
<1> QED  BY <1>7, <1>8

\* A decision replaces an entry by one for the same item.
LEMMA OwnItemsDecide ==
    ASSUME NEW s \in Seq(Entries), NEW l, NEW k, NEW items, NEW e \in Entries,
           OwnItems(s, l, k, items)
    PROVE  LET c == [i \in DOMAIN s |-> IF SameItem(s[i], e) THEN e ELSE s[i]]
           IN  c \in Seq(Entries) /\ Len(c) = Len(s) /\ OwnItems(c, l, k, items)
<1> DEFINE c == [i \in DOMAIN s |-> IF SameItem(s[i], e) THEN e ELSE s[i]]
<1>1. DOMAIN s = 1 .. Len(s) /\ Len(s) \in Nat
    OBVIOUS
<1>2. \A i \in 1 .. Len(s) : c[i] \in Entries
    BY <1>1
<1>3. c \in Seq(Entries) /\ Len(c) = Len(s)
    BY <1>1, <1>2, IsASeq
<1>4. \A i \in DOMAIN s : c[i].kind = s[i].kind /\ c[i].task = s[i].task
    BY DEF SameItem
<1>5. OwnItems(c, l, k, items)
    BY <1>4 DEF OwnItems, SameItem
<1> QED  BY <1>3, <1>5

LEMMA DecidedTeamLists ==
    ASSUME NEW lists, NEW k, NEW items, NEW e \in Entries,
           TeamLists(lists, k, items)
    PROVE  TeamLists(Decided(lists, e), k, items)
<1> DEFINE l == ListOf(e.kind)
           old == lists[l]
           s == [i \in DOMAIN old |-> IF SameItem(old[i], e) THEN e ELSE old[i]]
<1>1. /\ lists \in Lists /\ lists.checkpoints \in Seq(Entries)
      /\ lists.experiences \in Seq(Entries)
    BY DEF TeamLists, Lists
<1>2. l \in {"checkpoints", "experiences"}
    BY DEF ListOf
<1>3. old \in Seq(Entries) /\ OwnItems(old, l, k, items)
    BY <1>1, <1>2 DEF TeamLists
<1>4. s \in Seq(Entries) /\ Len(s) = Len(old) /\ OwnItems(s, l, k, items)
    <2> HIDE DEF old, l
    <2> QED  BY <1>3, OwnItemsDecide
<1>5. Decided(lists, e) = [lists EXCEPT ![l] = s]
    BY <1>1, <1>2 DEF Decided, Lists
<1> HIDE DEF s
<1>6. CASE l = "checkpoints"
    <2>1. /\ Decided(lists, e) \in Lists
          /\ Decided(lists, e).checkpoints = s
          /\ Decided(lists, e).experiences = lists.experiences
        BY <1>1, <1>4, <1>5, <1>6 DEF Lists
    <2> QED  BY <1>4, <1>6, <2>1 DEF TeamLists, WithinCaps
<1>7. CASE l = "experiences"
    <2>1. /\ Decided(lists, e) \in Lists
          /\ Decided(lists, e).experiences = s
          /\ Decided(lists, e).checkpoints = lists.checkpoints
        BY <1>1, <1>4, <1>5, <1>7 DEF Lists
    <2> QED  BY <1>4, <1>7, <2>1 DEF TeamLists, WithinCaps
<1> QED  BY <1>2, <1>6, <1>7

-----------------------------------------------------------------------------
(* The inductive invariant: every copy of a list that a process holds has  *)
(* the properties of the lists of the document, so that saving a stale one *)
(* does no harm.                                                           *)

\* The items that a task has yet to submit.
ToCome == [checkpoint |-> Kinds, memory |-> {"memory", "experience"},
           experience |-> {"experience"}, done |-> {}]

CopiesOK(p) ==
    /\ at[p] \in {"loaded", "reloaded"} =>
         TeamLists(frame[p].copy, frame[p].team, submitted)
    /\ at[p] = "reloaded" =>
         \A k \in Teams : TeamLists(frame[p].base[k], k, submitted)

SubmissionOK(t) ==
    /\ at[t] # "idle" =>
         /\ at[t] \in {"loaded", "reloaded"}
         /\ frame[t].team = TeamOf[t]
         /\ frame[t].entry.kind = stage[t]
         /\ frame[t].entry.task = t
    /\ \A kind \in ToCome[stage[t]] : <<kind, t>> \notin submitted

DecisionOK(r) ==
    /\ at[r] # "idle" =>
         /\ frame[r].entry.kind \in {"checkpoint", "experience"}
         /\ frame[r].entry.status \in Verdicts
    /\ at[r] \in {"approved", "read", "opened"} =>
         /\ frame[r].entry.kind = "experience"
         /\ "approved" \in given[<<"experience", frame[r].entry.task>>]
    /\ at[r] \in {"read", "opened"} => frame[r].draft.steps \subseteq HumanApproved

ProcessOK(p) ==
    /\ FrameOK(p) /\ CopiesOK(p)
    /\ p \in Tasks => SubmissionOK(p)
    /\ p \in Reviewers => DecisionOK(p)

SharedOK ==
    /\ doc \in [Teams -> Lists]
    /\ \A k \in Teams : TeamLists(doc[k], k, submitted)
    /\ skills \in Seq(Versions) /\ skills # <<>>
    /\ OnlyApprovedLessons
    /\ at \in [Processes -> {"idle", "loaded", "reloaded", "approved", "read",
                             "opened"}]
    /\ DOMAIN frame = Processes
    /\ stage \in [Tasks -> Kinds \cup {"done"}]
    /\ decisions \in 0 .. MaxDecisions
    /\ submitted \subseteq Kinds \X Tasks
    /\ given \in [Items -> SUBSET Verdicts]

StoreInv == SharedOK /\ \A p \in Processes : ProcessOK(p)

LEMMA StoreInvImplies == StoreInv => TypeOK /\ OnlyApprovedLessons
BY DEF StoreInv, SharedOK, ProcessOK, TypeOK, TeamLists

-----------------------------------------------------------------------------
(* A step of p leaves the other processes alone, submits items of p only   *)
(* and takes no verdict back.                                              *)
StepOf(p) ==
    /\ \A q \in Processes \ {p} : /\ at'[q] = at[q] /\ frame'[q] = frame[q]
                                  /\ q \in Tasks => stage'[q] = stage[q]
    /\ submitted \subseteq submitted'
    /\ \A kind \in Kinds, t \in Tasks \ {p} :
         <<kind, t>> \in submitted' => <<kind, t>> \in submitted
    /\ \A i \in Items : given[i] \subseteq given'[i]

LEMMA ApprovedGrows ==
    ASSUME \A i \in Items : given[i] \subseteq given'[i]
    PROVE  HumanApproved \subseteq HumanApproved'
BY DEF HumanApproved, Items

LEMMA SameSkills ==
    ASSUME OnlyApprovedLessons, skills' = skills,
           \A i \in Items : given[i] \subseteq given'[i]
    PROVE  OnlyApprovedLessons'
BY ApprovedGrows DEF OnlyApprovedLessons

LEMMA MoveOfOne ==
    ASSUME StoreInv, NEW p \in Processes, StepOf(p), SharedOK', ProcessOK(p)'
    PROVE  StoreInv'
<1>1. SUFFICES ASSUME NEW q \in Processes \ {p}
               PROVE  ProcessOK(q)'
    BY DEF StoreInv
<1>2. at'[q] = at[q] /\ frame'[q] = frame[q] /\ submitted \subseteq submitted'
    BY DEF StepOf
<1>3. ProcessOK(q)
    BY DEF StoreInv
<1>4. FrameOK(q)'
    BY <1>2, <1>3 DEF ProcessOK, FrameOK
<1>5. CopiesOK(q)'
    BY <1>2, <1>3, TeamListsGrow DEF ProcessOK, CopiesOK
<1>6. ASSUME q \in Tasks PROVE SubmissionOK(q)'
    <2>1. stage'[q] = stage[q] /\ stage[q] \in Kinds \cup {"done"}
        BY <1>6 DEF StepOf, StoreInv, SharedOK
    <2>2. ToCome[stage[q]] \subseteq Kinds
        BY <2>1 DEF ToCome, Kinds
    <2>3. \A kind \in ToCome[stage[q]] : <<kind, q>> \notin submitted'
        BY <1>3, <1>6, <2>2 DEF StepOf, ProcessOK, SubmissionOK
    <2> QED  BY <1>2, <1>3, <1>6, <2>1, <2>3 DEF ProcessOK, SubmissionOK
<1>7. ASSUME q \in Reviewers PROVE DecisionOK(q)'
    <2>1. at[q] # "idle" => <<"experience", frame[q].entry.task>> \in Items
        BY <1>3 DEF ProcessOK, FrameOK, Entries, Items
    <2>2. HumanApproved \subseteq HumanApproved'
        BY ApprovedGrows DEF StepOf
    <2> QED  BY <1>2, <1>3, <1>7, <2>1, <2>2 DEF StepOf, ProcessOK, DecisionOK
<1> QED  BY <1>4, <1>5, <1>6, <1>7 DEF ProcessOK

\* A process that returns from its operation.
LEMMA Returned ==
    ASSUME StoreInv, NEW p \in Processes, Return(p)
    PROVE  /\ at' \in [Processes -> {"idle", "loaded", "reloaded", "approved",
                                     "read", "opened"}]
           /\ DOMAIN frame' = Processes /\ at'[p] = "idle"
           /\ FrameOK(p)' /\ CopiesOK(p)' /\ DecisionOK(p)'
           /\ \A q \in Processes \ {p} : at'[q] = at[q] /\ frame'[q] = frame[q]
<1>1. at'[p] = "idle" /\ frame'[p] = NoFrame
    BY DEF Return, StoreInv, SharedOK
<1>2. NoFrame.copy = EmptyLists /\ EmptyLists \in Lists /\ WithinCaps(EmptyLists)
    BY StoreAssumption DEF NoFrame, EmptyLists, Lists, WithinCaps
<1>3. FrameOK(p)'
    BY <1>1, <1>2 DEF FrameOK
<1> QED
    BY <1>1, <1>3 DEF Return, StoreInv, SharedOK, CopiesOK, DecisionOK

\* A process that loads the lists of a team.
LEMMA Loaded ==
    ASSUME StoreInv, NEW p \in Processes, NEW team \in Teams, NEW e \in Entries,
           Load(p, team, e)
    PROVE  /\ at' \in [Processes -> {"idle", "loaded", "reloaded", "approved",
                                     "read", "opened"}]
           /\ DOMAIN frame' = Processes /\ at'[p] = "loaded"
           /\ frame'[p].team = team /\ frame'[p].entry = e
           /\ frame'[p].copy = doc[team]
           /\ FrameOK(p)' /\ CopiesOK(p)'
           /\ \A q \in Processes \ {p} : at'[q] = at[q] /\ frame'[q] = frame[q]
<1> DEFINE f == [NoFrame EXCEPT !.team = team, !.entry = e, !.copy = doc[team]]
<1>1. at'[p] = "loaded" /\ frame'[p] = f
    BY DEF Load, StoreInv, SharedOK
<1>2. /\ f.team = team /\ f.entry = e /\ f.copy = doc[team]
      /\ DOMAIN f = DOMAIN NoFrame
    BY DEF NoFrame
<1>3. TeamLists(doc[team], team, submitted)
    BY DEF StoreInv, SharedOK
<1> HIDE DEF f
<1>4. FrameOK(p)'
    BY <1>1, <1>2, <1>3 DEF FrameOK, TeamLists
<1>5. CopiesOK(p)'
    BY <1>1, <1>2, <1>3 DEF CopiesOK, Load, observers
<1> QED
    BY <1>1, <1>2, <1>4, <1>5 DEF Load, StoreInv, SharedOK

\* The document after a save of lists that belong to the team.
LEMMA Saved ==
    ASSUME StoreInv, NEW p \in Processes, NEW lists, NEW items,
           submitted \subseteq items, Save(p, lists),
           TeamLists(lists, frame[p].team, items)
    PROVE  doc' \in [Teams -> Lists] /\ \A k \in Teams : TeamLists(doc'[k], k, items)
<1>1. ProcessOK(p) /\ at[p] = "reloaded"
    BY DEF StoreInv, Save
<1>2. /\ frame[p].base \in [Teams -> Lists] /\ frame[p].team \in Teams
      /\ \A k \in Teams : TeamLists(frame[p].base[k], k, submitted)
    BY <1>1 DEF ProcessOK, FrameOK, CopiesOK
<1>3. \A k \in Teams : TeamLists(frame[p].base[k], k, items)
    BY <1>2, TeamListsGrow
<1> QED
    BY <1>2, <1>3 DEF Save, TeamLists

-----------------------------------------------------------------------------
(* The tasks.                                                              *)

LEMMA SubmitStep ==
    ASSUME StoreInv, NEW t \in Tasks, Submit(t)
    PROVE  StoreInv'
<1> DEFINE e == [kind |-> stage[t], task |-> t,
                 status |-> IF stage[t] = "memory" THEN "memory" ELSE "pending"]
<1>1. t \in Processes /\ TeamOf[t] \in Teams /\ e \in Entries
    BY StoreAssumption DEF Processes, Submit, Entries
<1>2. Load(t, TeamOf[t], e) /\ UNCHANGED <<doc, skills, stage, decisions, observers>>
    BY DEF Submit, Load
<1>3. e.kind = stage[t] /\ e.task = t
    OBVIOUS
<1> HIDE DEF e
<1>4. SharedOK'
    BY <1>1, <1>2, Loaded, SameSkills DEF StoreInv, SharedOK, observers
<1>5. StepOf(t)
    BY <1>1, <1>2, Loaded DEF StepOf, observers
<1>6. SubmissionOK(t)
    BY <1>1 DEF StoreInv, ProcessOK
<1>7. SubmissionOK(t)' /\ t \notin Reviewers
    BY <1>1, <1>2, <1>3, <1>6, Loaded, StoreAssumption DEF SubmissionOK, observers
<1>8. ProcessOK(t)'
    BY <1>1, <1>2, <1>7, Loaded DEF ProcessOK
<1> QED  BY <1>1, <1>4, <1>5, <1>8, MoveOfOne

\* What is to come after a stage is less than what was to come.
LEMMA StageAfter ==
    ASSUME NEW s \in Kinds
    PROVE  /\ After[s] \in Kinds \cup {"done"}
           /\ ToCome[After[s]] \subseteq ToCome[s] \ {s}
           /\ ToCome["done"] = {} /\ s \in ToCome[s]
BY DEF Kinds, After, ToCome

LEMMA NothingToSubmitStep ==
    ASSUME StoreInv, NEW t \in Tasks, NothingToSubmit(t)
    PROVE  StoreInv'
<1>1. t \in Processes /\ t \notin Reviewers /\ ProcessOK(t) /\ at[t] = "idle"
      /\ stage[t] \in Kinds
    BY StoreAssumption DEF StoreInv, Processes, NothingToSubmit, Kinds
<1>2. /\ UNCHANGED <<doc, skills, at, frame, decisions, submitted, given>>
      /\ stage' = [stage EXCEPT ![t] = After[stage[t]]]
    BY DEF NothingToSubmit, observers
<1>3. stage'[t] = After[stage[t]] /\ stage' \in [Tasks -> Kinds \cup {"done"}]
    BY <1>1, <1>2, StageAfter DEF StoreInv, SharedOK
<1>4. SharedOK'
    BY <1>2, <1>3, SameSkills DEF StoreInv, SharedOK
<1>5. StepOf(t)
    BY <1>2 DEF StepOf, StoreInv, SharedOK, Processes
<1>6. SubmissionOK(t)'
    BY <1>1, <1>2, <1>3, StageAfter DEF ProcessOK, SubmissionOK
<1>7. ProcessOK(t)'
    BY <1>1, <1>2, <1>6 DEF ProcessOK, FrameOK, CopiesOK
<1> QED  BY <1>1, <1>4, <1>5, <1>7, MoveOfOne

LEMMA SaveSubmissionStep ==
    ASSUME StoreInv, NEW t \in Tasks, SaveSubmission(t)
    PROVE  StoreInv'
<1> DEFINE e == frame[t].entry
           items == submitted \cup {<<stage[t], t>>}
<1>1. /\ t \in Processes /\ t \notin Reviewers /\ ProcessOK(t)
      /\ at[t] = "reloaded" /\ Return(t)
    BY StoreAssumption DEF StoreInv, Processes, SaveSubmission, Save
<1>2. /\ e \in Entries /\ frame[t].team = TeamOf[t]
      /\ e.kind = stage[t] /\ e.task = t /\ stage[t] \in Kinds
    BY <1>1 DEF ProcessOK, FrameOK, SubmissionOK, Entries
<1>3. <<stage[t], t>> \notin submitted
    BY <1>1, <1>2, StageAfter DEF ProcessOK, SubmissionOK
<1>4. TeamLists(frame[t].copy, TeamOf[t], submitted)
    BY <1>1, <1>2 DEF ProcessOK, CopiesOK
<1>5. TeamLists(Inserted(frame[t].copy, e), TeamOf[t], items)
    BY <1>2, <1>3, <1>4, InsertedTeamLists
<1>6. doc' \in [Teams -> Lists] /\ \A k \in Teams : TeamLists(doc'[k], k, items)
    BY <1>1, <1>2, <1>5, Saved DEF SaveSubmission
<1>7. /\ submitted' = items /\ UNCHANGED <<skills, decisions, given>>
      /\ stage' = [stage EXCEPT ![t] = After[stage[t]]]
    BY DEF SaveSubmission
<1>8. stage'[t] = After[stage[t]] /\ stage' \in [Tasks -> Kinds \cup {"done"}]
    BY <1>2, <1>7, StageAfter DEF StoreInv, SharedOK
<1>9. SharedOK'
    <2>1. items \subseteq Kinds \X Tasks
        BY <1>2 DEF StoreInv, SharedOK
    <2>2. OnlyApprovedLessons'
        BY <1>7, SameSkills DEF StoreInv, SharedOK
    <2> HIDE DEF items
    <2> QED
        BY <1>1, <1>6, <1>7, <1>8, <2>1, <2>2, Returned DEF StoreInv, SharedOK
<1>10. StepOf(t)
    BY <1>1, <1>7, Returned DEF StepOf, StoreInv, SharedOK, Processes
<1>11. SubmissionOK(t)'
    <2>1. at'[t] = "idle"
        BY <1>1, Returned
    <2>2. \A kind \in ToCome[stage'[t]] : <<kind, t>> \notin submitted'
        BY <1>1, <1>2, <1>7, <1>8, StageAfter DEF ProcessOK, SubmissionOK
    <2> QED  BY <2>1, <2>2 DEF SubmissionOK
<1>12. ProcessOK(t)'
    BY <1>1, <1>11, Returned DEF ProcessOK
<1> QED  BY <1>1, <1>9, <1>10, <1>12, MoveOfOne

LEMMA TaskFailsStep ==
    ASSUME StoreInv, NEW t \in Tasks, TaskFails(t)
    PROVE  StoreInv'
<1>1. /\ t \in Processes /\ t \notin Reviewers /\ ProcessOK(t)
      /\ at[t] # "idle" /\ Return(t)
    BY StoreAssumption DEF StoreInv, Processes, TaskFails
<1>2. UNCHANGED <<doc, skills, decisions, submitted, given>>
    BY DEF TaskFails, observers
<1>3. stage[t] \in Kinds
    BY <1>1 DEF ProcessOK, FrameOK, SubmissionOK, Entries
<1>4. /\ stage' \in [Tasks -> Kinds \cup {"done"}]
      /\ ToCome[stage'[t]] \subseteq ToCome[stage[t]]
      /\ \A q \in Tasks \ {t} : stage'[q] = stage[q]
    BY <1>3 DEF TaskFails, StoreInv, SharedOK, Kinds, ToCome
<1>5. SharedOK'
    BY <1>1, <1>2, <1>4, Returned, SameSkills
    DEF StoreInv, SharedOK
<1>6. StepOf(t)
    BY <1>1, <1>2, <1>4, Returned DEF StepOf
<1>7. SubmissionOK(t)'
    BY <1>1, <1>2, <1>4, Returned DEF ProcessOK, SubmissionOK
<1>8. ProcessOK(t)'
    BY <1>1, <1>7, Returned DEF ProcessOK
<1> QED  BY <1>1, <1>5, <1>6, <1>8, MoveOfOne

-----------------------------------------------------------------------------
(* The reviewers.                                                          *)

LEMMA DecideStep ==
    ASSUME StoreInv, NEW r \in Reviewers, NEW team \in Teams, NEW i \in Items,
           NEW verdict \in Verdicts, Decide(r, team, i, verdict)
    PROVE  StoreInv'
<1> DEFINE e == [kind |-> i[1], task |-> i[2], status |-> verdict]
<1>1. r \in Processes /\ r \notin Tasks /\ e \in Entries
    BY StoreAssumption DEF Processes, Entries, Items, Kinds
<1>2. /\ Load(r, team, e) /\ UNCHANGED <<doc, skills, stage, submitted, given>>
      /\ decisions < MaxDecisions /\ decisions' = decisions + 1
    BY DEF Decide, Load, observers
<1>3. e.kind \in {"checkpoint", "experience"} /\ e.status \in Verdicts
    BY DEF Items
<1> HIDE DEF e
<1>4. decisions' \in 0 .. MaxDecisions
    BY <1>2, StoreAssumption DEF StoreInv, SharedOK
<1>5. SharedOK'
    BY <1>1, <1>2, <1>4, Loaded, SameSkills DEF StoreInv, SharedOK
<1>6. StepOf(r)
    BY <1>1, <1>2, Loaded DEF StepOf
<1>7. DecisionOK(r)'
    BY <1>1, <1>2, <1>3, Loaded DEF DecisionOK
<1>8. ProcessOK(r)'
    BY <1>1, <1>2, <1>7, Loaded DEF ProcessOK
<1> QED  BY <1>1, <1>5, <1>6, <1>8, MoveOfOne

\* Steps that end a reviewer's operation and change nothing but the skills.
LEMMA ReviewReturns ==
    ASSUME StoreInv, NEW r \in Reviewers, Return(r),
           UNCHANGED <<doc, stage, decisions, submitted, given>>,
           skills' \in Seq(Versions), skills' # <<>>, OnlyApprovedLessons'
    PROVE  StoreInv'
<1>1. r \in Processes /\ r \notin Tasks
    BY StoreAssumption DEF Processes
<1>2. SharedOK'
    BY <1>1, Returned DEF StoreInv, SharedOK
<1>3. StepOf(r)
    BY <1>1, Returned DEF StepOf
<1>4. ProcessOK(r)'
    BY <1>1, Returned DEF ProcessOK
<1> QED  BY <1>1, <1>2, <1>3, <1>4, MoveOfOne

LEMMA SaveDecisionStep ==
    ASSUME StoreInv, NEW r \in Reviewers, SaveDecision(r)
    PROVE  StoreInv'
<1> DEFINE e == frame[r].entry
           i == <<e.kind, e.task>>
<1>1. r \in Processes /\ r \notin Tasks /\ ProcessOK(r) /\ at[r] = "reloaded"
    BY StoreAssumption DEF StoreInv, Processes, SaveDecision, Save
<1>2. /\ e \in Entries /\ i \in Items
      /\ e.kind \in {"checkpoint", "experience"} /\ e.status \in Verdicts
    BY <1>1 DEF ProcessOK, FrameOK, DecisionOK, Entries, Items
<1>3. /\ UNCHANGED <<skills, stage, decisions, submitted>>
      /\ given' = [given EXCEPT ![i] = given[i] \cup {e.status}]
    BY DEF SaveDecision
<1>4. TeamLists(Decided(frame[r].copy, e), frame[r].team, submitted)
    BY <1>1, <1>2, DecidedTeamLists DEF ProcessOK, CopiesOK
<1>5. doc' \in [Teams -> Lists] /\ \A k \in Teams : TeamLists(doc'[k], k, submitted)
    BY <1>1, <1>4, Saved DEF SaveDecision
<1>6. /\ given' \in [Items -> SUBSET Verdicts] /\ e.status \in given'[i]
      /\ \A j \in Items : given[j] \subseteq given'[j]
    <2> HIDE DEF e, i
    <2> QED  BY <1>2, <1>3 DEF StoreInv, SharedOK
<1>7. CASE e.kind = "experience" /\ e.status = "approved"
    <2>1. at' = [at EXCEPT ![r] = "approved"] /\ frame' = frame
        BY <1>7 DEF SaveDecision
    <2>2. SharedOK'
        BY <1>3, <1>5, <1>6, <2>1, SameSkills DEF StoreInv, SharedOK
    <2>3. StepOf(r)
        BY <1>3, <1>6, <2>1 DEF StepOf, StoreInv, SharedOK, Processes
    <2>4. at'[r] = "approved"
        BY <1>1, <2>1 DEF StoreInv, SharedOK
    <2>5. DecisionOK(r)'
        BY <1>2, <1>6, <1>7, <2>1, <2>4 DEF DecisionOK
    <2>6. FrameOK(r)' /\ CopiesOK(r)'
        BY <1>1, <2>1, <2>4 DEF ProcessOK, FrameOK, CopiesOK
    <2> QED  BY <1>1, <2>2, <2>3, <2>5, <2>6, MoveOfOne DEF ProcessOK
<1>8. CASE ~(e.kind = "experience" /\ e.status = "approved")
    <2>1. Return(r)
        BY <1>8 DEF SaveDecision
    <2>2. SharedOK'
        BY <1>1, <1>3, <1>5, <1>6, <2>1, Returned, SameSkills DEF StoreInv, SharedOK
    <2>3. StepOf(r)
        BY <1>1, <1>3, <1>6, <2>1, Returned DEF StepOf
    <2> QED  BY <1>1, <2>1, <2>2, <2>3, Returned, MoveOfOne DEF ProcessOK
<1> QED  BY <1>7, <1>8

\* Both end the operation where it is.
LEMMA EndStep ==
    ASSUME StoreInv, NEW r \in Reviewers, NoNewVersion(r) \/ ReviewFails(r)
    PROVE  StoreInv'
<1>1. /\ Return(r)
      /\ UNCHANGED <<doc, skills, stage, decisions, submitted, given>>
    BY DEF NoNewVersion, ReviewFails, observers
<1>2. OnlyApprovedLessons' /\ skills' \in Seq(Versions) /\ skills' # <<>>
    BY <1>1, SameSkills DEF StoreInv, SharedOK
<1> QED  BY <1>1, <1>2, ReviewReturns

LEMMA ReadSkillStep ==
    ASSUME StoreInv, NEW r \in Reviewers, ReadSkill(r)
    PROVE  StoreInv'
<1> DEFINE e == frame[r].entry
           draft == [number |-> Len(skills) + 1,
                     steps |-> Latest.steps \cup LessonsOf(r)]
<1>1. r \in Processes /\ r \notin Tasks /\ ProcessOK(r) /\ at[r] = "approved"
    BY StoreAssumption DEF StoreInv, Processes, ReadSkill
<1>2. /\ UNCHANGED <<doc, skills, stage, decisions, submitted, given>>
      /\ at' = [at EXCEPT ![r] = "read"]
      /\ frame' = [frame EXCEPT ![r] = [frame[r] EXCEPT !.draft = draft]]
    BY DEF ReadSkill, observers
<1>3. skills \in Seq(Versions) /\ Len(skills) \in Nat \ {0} /\ Latest \in Versions
    BY DEF StoreInv, SharedOK, Latest
<1>4. Latest.steps \subseteq HumanApproved /\ Latest.steps \subseteq Steps
    BY <1>3 DEF StoreInv, SharedOK, OnlyApprovedLessons, Latest, Versions
<1>5. e.task \in Tasks /\ "approved" \in given[<<"experience", e.task>>]
    BY <1>1 DEF ProcessOK, FrameOK, DecisionOK, Entries
<1>6. LessonsOf(r) \subseteq HumanApproved /\ LessonsOf(r) \subseteq Steps
    BY <1>5, StoreAssumption DEF LessonsOf, HumanApproved
<1>7. draft \in Drafts /\ draft.steps \subseteq HumanApproved
    BY <1>3, <1>4, <1>6 DEF Drafts
<1> HIDE DEF draft
<1>8. /\ at'[r] = "read" /\ frame'[r] = [frame[r] EXCEPT !.draft = draft]
      /\ DOMAIN frame' = Processes
    BY <1>1, <1>2 DEF StoreInv, SharedOK
<1>9. DOMAIN frame[r] = {"team", "entry", "copy", "base", "draft"}
    BY <1>1 DEF ProcessOK, FrameOK, NoFrame
<1>10. /\ DOMAIN frame'[r] = DOMAIN frame[r] /\ frame'[r].team = frame[r].team
       /\ frame'[r].entry = frame[r].entry /\ frame'[r].copy = frame[r].copy
       /\ frame'[r].draft = draft
    BY <1>8, <1>9
<1>11. FrameOK(r)' /\ CopiesOK(r)'
    BY <1>1, <1>7, <1>8, <1>10 DEF ProcessOK, FrameOK, CopiesOK
<1>12. HumanApproved' = HumanApproved
    BY <1>2 DEF HumanApproved
<1>13. DecisionOK(r)'
    BY <1>1, <1>2, <1>7, <1>8, <1>10, <1>12 DEF ProcessOK, DecisionOK
<1>14. SharedOK'
    BY <1>1, <1>2, <1>8, SameSkills DEF StoreInv, SharedOK
<1>15. StepOf(r)
    BY <1>2 DEF StepOf, StoreInv, SharedOK, Processes
<1> QED  BY <1>1, <1>11, <1>13, <1>14, <1>15, MoveOfOne DEF ProcessOK

\* A version file that is created or replaced.
LEMMA PutSkills ==
    ASSUME StoreInv, NEW n \in Nat \ {0}, NEW v \in Versions, PutVersion(n, v),
           v.steps \subseteq HumanApproved, given' = given
    PROVE  skills' \in Seq(Versions) /\ skills' # <<>> /\ OnlyApprovedLessons'
<1>1. skills \in Seq(Versions) /\ skills # <<>> /\ HumanApproved' = HumanApproved
    BY DEF StoreInv, SharedOK, HumanApproved
<1>2. \A m \in DOMAIN skills : skills[m].steps \subseteq HumanApproved
    BY DEF StoreInv, SharedOK, OnlyApprovedLessons
<1>3. CASE n > Len(skills)
    <2>1. skills' = Append(skills, v)
        BY <1>3 DEF PutVersion
    <2>2. /\ skills' \in Seq(Versions) /\ skills' # <<>>
          /\ DOMAIN skills' = 1 .. Len(skills) + 1
          /\ \A m \in DOMAIN skills' :
                skills'[m] = IF m \in DOMAIN skills THEN skills[m] ELSE v
        BY <1>1, <2>1, AppendProperties
    <2> QED  BY <1>1, <1>2, <2>2 DEF OnlyApprovedLessons
<1>4. CASE ~(n > Len(skills))
    <2>1. skills' = [skills EXCEPT ![n] = v]
        BY <1>4 DEF PutVersion
    <2>2. n \in 1 .. Len(skills)
        BY <1>1, <1>4
    <2>3. /\ skills' \in Seq(Versions) /\ Len(skills') = Len(skills)
          /\ DOMAIN skills' = DOMAIN skills
          /\ \A m \in DOMAIN skills :
                skills'[m] = IF m = n THEN v ELSE skills[m]
        BY <1>1, <2>1, <2>2, ExceptSeq
    <2>4. skills' # <<>>
        BY <1>1, <2>3, EmptySeq
    <2> QED  BY <1>1, <1>2, <2>3, <2>4 DEF OnlyApprovedLessons
<1> QED  BY <1>3, <1>4

LEMMA OpenVersionStep ==
    ASSUME StoreInv, NEW r \in Reviewers, OpenVersion(r)
    PROVE  StoreInv'
<1>1. r \in Processes /\ r \notin Tasks /\ ProcessOK(r) /\ at[r] = "read"
    BY StoreAssumption DEF StoreInv, Processes, OpenVersion
<1>2. /\ UNCHANGED <<doc, frame, stage, decisions, submitted, given>>
      /\ at' = [at EXCEPT ![r] = "opened"]
      /\ PutVersion(frame[r].draft.number, Version(r, {}, TRUE))
    BY DEF OpenVersion, observers
<1>3. frame[r].draft.number \in Nat \ {0} /\ Version(r, {}, TRUE) \in Versions
    BY <1>1 DEF ProcessOK, FrameOK, Drafts, Entries, Version, Versions
<1>4. Version(r, {}, TRUE).steps \subseteq HumanApproved
    BY DEF Version
<1>5. skills' \in Seq(Versions) /\ skills' # <<>> /\ OnlyApprovedLessons'
    BY <1>2, <1>3, <1>4, PutSkills
<1>6. at'[r] = "opened" /\ HumanApproved' = HumanApproved
    BY <1>1, <1>2 DEF StoreInv, SharedOK, HumanApproved
<1>7. SharedOK'
    BY <1>1, <1>2, <1>5 DEF StoreInv, SharedOK
<1>8. StepOf(r)
    BY <1>2 DEF StepOf, StoreInv, SharedOK, Processes
<1>9. FrameOK(r)' /\ CopiesOK(r)' /\ DecisionOK(r)'
    BY <1>1, <1>2, <1>6 DEF ProcessOK, FrameOK, CopiesOK, DecisionOK
<1> QED  BY <1>1, <1>7, <1>8, <1>9, MoveOfOne DEF ProcessOK

LEMMA WriteVersionStep ==
    ASSUME StoreInv, NEW r \in Reviewers, WriteVersion(r)
    PROVE  StoreInv'
<1> DEFINE v == Version(r, frame[r].draft.steps, FALSE)
<1>1. r \in Processes /\ ProcessOK(r) /\ at[r] = "opened"
    BY DEF StoreInv, Processes, WriteVersion
<1>2. /\ UNCHANGED <<doc, stage, decisions, submitted, given>> /\ Return(r)
      /\ PutVersion(frame[r].draft.number, v)
    BY DEF WriteVersion, observers
<1>3. frame[r].draft.number \in Nat \ {0} /\ v \in Versions
    BY <1>1 DEF ProcessOK, FrameOK, Drafts, Entries, Version, Versions
<1>4. v.steps \subseteq HumanApproved
    BY <1>1 DEF Version, ProcessOK, DecisionOK
<1>5. skills' \in Seq(Versions) /\ skills' # <<>> /\ OnlyApprovedLessons'
    BY <1>2, <1>3, <1>4, PutSkills
<1> QED  BY <1>2, <1>5, ReviewReturns

-----------------------------------------------------------------------------

LEMMA ReloadStep ==
    ASSUME StoreInv, NEW p \in Processes, Reload(p)
    PROVE  StoreInv'
<1> DEFINE base == [doc EXCEPT ![frame[p].team] = EmptyLists]
<1>1. ProcessOK(p) /\ at[p] = "loaded"
    BY DEF StoreInv, Reload
<1>2. /\ UNCHANGED <<doc, skills, stage, decisions, submitted, given>>
      /\ at' = [at EXCEPT ![p] = "reloaded"]
      /\ frame' = [frame EXCEPT ![p] = [frame[p] EXCEPT !.base = base]]
    BY DEF Reload, observers
<1>3. EmptyLists \in Lists /\ frame[p].team \in Teams
    BY <1>1 DEF EmptyLists, Lists, ProcessOK, FrameOK
<1>4. /\ base \in [Teams -> Lists]
      /\ \A k \in Teams : TeamLists(base[k], k, submitted)
    BY <1>3, EmptyTeamLists DEF StoreInv, SharedOK
<1> HIDE DEF base
<1>5. /\ at'[p] = "reloaded" /\ frame'[p] = [frame[p] EXCEPT !.base = base]
      /\ DOMAIN frame' = Processes
    BY <1>2 DEF StoreInv, SharedOK
<1>6. DOMAIN frame[p] = {"team", "entry", "copy", "base", "draft"}
    BY <1>1 DEF ProcessOK, FrameOK, NoFrame
<1>7. /\ DOMAIN frame'[p] = DOMAIN frame[p] /\ frame'[p].team = frame[p].team
      /\ frame'[p].entry = frame[p].entry /\ frame'[p].copy = frame[p].copy
      /\ frame'[p].base = base
    BY <1>5, <1>6
<1>8. FrameOK(p)' /\ CopiesOK(p)'
    BY <1>1, <1>2, <1>4, <1>5, <1>7 DEF ProcessOK, FrameOK, CopiesOK, TeamLists
<1>9. p \in Tasks => SubmissionOK(p)'
    BY <1>1, <1>2, <1>5, <1>7 DEF ProcessOK, SubmissionOK
<1>10. p \in Reviewers => DecisionOK(p)'
    BY <1>1, <1>5, <1>7 DEF ProcessOK, DecisionOK
<1>11. SharedOK'
    BY <1>2, <1>5, SameSkills DEF StoreInv, SharedOK
<1>12. StepOf(p)
    BY <1>2 DEF StepOf, StoreInv, SharedOK
<1> QED  BY <1>8, <1>9, <1>10, <1>11, <1>12, MoveOfOne DEF ProcessOK

LEMMA InitStore == Init => StoreInv
<1> SUFFICES ASSUME Init PROVE StoreInv
    OBVIOUS
<1>1. EmptyLists \in Lists /\ \A k : TeamLists(EmptyLists, k, submitted)
    BY EmptyTeamLists DEF EmptyLists, Lists
<1>2. skills \in Seq(Versions) /\ skills # <<>> /\ OnlyApprovedLessons
    BY StoreAssumption DEF Init, Versions, OnlyApprovedLessons, HumanApproved
<1>3. SharedOK
    BY <1>1, <1>2, StoreAssumption DEF Init, SharedOK, Kinds
<1>4. ASSUME NEW p \in Processes PROVE ProcessOK(p)
    <2>1. at[p] = "idle" /\ frame[p] = NoFrame /\ NoFrame.copy = EmptyLists
        BY DEF Init, NoFrame
    <2>2. FrameOK(p) /\ CopiesOK(p) /\ DecisionOK(p)
        BY <1>1, <2>1 DEF FrameOK, CopiesOK, DecisionOK, TeamLists
    <2>3. p \in Tasks => SubmissionOK(p)
        BY <2>1 DEF Init, SubmissionOK
    <2> QED  BY <2>2, <2>3 DEF ProcessOK
<1> QED  BY <1>3, <1>4 DEF StoreInv

LEMMA NextStore == StoreInv /\ [Next]_vars => StoreInv'
<1> SUFFICES ASSUME StoreInv, [Next]_vars PROVE StoreInv'
    OBVIOUS
<1>1. CASE UNCHANGED vars
    <2>1. UNCHANGED <<doc, skills, at, frame, stage, decisions, submitted, given>>
        BY <1>1 DEF vars, observers
    <2>2. SharedOK'
        BY <2>1, SameSkills DEF StoreInv, SharedOK
    <2>3. ASSUME NEW p \in Processes PROVE ProcessOK(p)'
        <3>1. HumanApproved' = HumanApproved
            BY <2>1 DEF HumanApproved
        <3>2. FrameOK(p)' /\ CopiesOK(p)'
            BY <2>1 DEF StoreInv, ProcessOK, FrameOK, CopiesOK
        <3>3. (p \in Tasks => SubmissionOK(p)') /\ (p \in Reviewers => DecisionOK(p)')
            BY <2>1, <3>1 DEF StoreInv, ProcessOK, SubmissionOK, DecisionOK
        <3> QED  BY <3>2, <3>3 DEF ProcessOK
    <2> QED  BY <2>2, <2>3 DEF StoreInv
<1>2. ASSUME NEW t \in Tasks, TaskStep(t) PROVE StoreInv'
    BY <1>2, SubmitStep, NothingToSubmitStep, SaveSubmissionStep, TaskFailsStep
    DEF TaskStep
<1>3. ASSUME NEW r \in Reviewers, Review(r) PROVE StoreInv'
    BY <1>3, DecideStep, SaveDecisionStep, EndStep, ReadSkillStep,
       OpenVersionStep, WriteVersionStep
    DEF Review
<1> QED  BY <1>1, <1>2, <1>3, ReloadStep DEF Next

LEMMA StoreInvAlways == Spec => []StoreInv
BY InitStore, NextStore, PTL DEF Spec

\* The document, the skills and what every process holds keep their types,
\* and every list its cap, for any caps.
THEOREM TypeCorrect == Spec => []TypeOK
BY StoreInvAlways, StoreInvImplies, PTL

\* No step of a skill is one that no human approved, however many dashboards
\* decide at once and wherever each of them stops.
THEOREM LearningIsApproved == Spec => []OnlyApprovedLessons
BY StoreInvAlways, StoreInvImplies, PTL

\* Stale copies of the whole document never move an item to another team.
THEOREM TeamsAreApart == Spec => []TeamsStayApart
<1>1. ASSUME StoreInv, NEW k \in Teams, NEW l \in DOMAIN doc[k]
      PROVE  LET s == doc[k][l] IN
             /\ \A i \in DOMAIN s : TeamOf[s[i].task] = k
             /\ \A i, j \in DOMAIN s : SameItem(s[i], s[j]) => i = j
    <2>1. TeamLists(doc[k], k, submitted) /\ l \in {"checkpoints", "experiences"}
        BY <1>1 DEF StoreInv, SharedOK, Lists
    <2>2. OwnItems(doc[k][l], l, k, submitted)
        BY <2>1 DEF TeamLists
    <2> QED  BY <2>2 DEF OwnItems
<1>2. StoreInv => TeamsStayApart
    BY <1>1 DEF TeamsStayApart
<1> QED  BY <1>2, StoreInvAlways, PTL

-----------------------------------------------------------------------------
(* The versions of one dashboard, r.  While it holds a draft, the draft is  *)
(* for the number after the version it was read from, and that version is   *)
(* whole and less than the draft; two dashboards break this.                *)

More(steps, than) == than \subseteq steps /\ than # steps

VersionInv(r) ==
    /\ VersionsGrow
    /\ at[r] = "read" =>
         /\ ~Latest.torn
         /\ frame[r].draft.number = Len(skills) + 1
         /\ More(frame[r].draft.steps, Latest.steps)
    /\ at[r] = "opened" =>
         /\ frame[r].draft.number = Len(skills) /\ Len(skills) > 1
         /\ More(frame[r].draft.steps, skills[Len(skills) - 1].steps)

\* A step that touches no version and hands r no draft.
LEMMA VersionStay ==
    ASSUME NEW r, VersionInv(r), skills' = skills,
           at'[r] \in {"read", "opened"} => /\ at'[r] = at[r]
                                            /\ frame'[r] = frame[r]
    PROVE  VersionInv(r)'
BY DEF VersionInv, VersionsGrow, Latest

LEMMA ReadVersion ==
    ASSUME StoreInv, NEW r \in Reviewers, VersionInv(r), ReadSkill(r)
    PROVE  VersionInv(r)'
<1> DEFINE draft == [number |-> Len(skills) + 1,
                     steps |-> Latest.steps \cup LessonsOf(r)]
<1>1. /\ at'[r] = "read" /\ skills' = skills
      /\ frame'[r] = [frame[r] EXCEPT !.draft = draft]
      /\ ~Latest.torn
    BY DEF ReadSkill, StoreInv, SharedOK, Processes
<1>2. "draft" \in DOMAIN frame[r]
    BY DEF StoreInv, ProcessOK, FrameOK, NoFrame, Processes
<1>3. frame'[r].draft = draft
    BY <1>1, <1>2
<1>4. draft.number = Len(skills) + 1 /\ More(draft.steps, Latest.steps)
    BY DEF More, ReadSkill
<1> HIDE DEF draft
<1>5. VersionsGrow' /\ Latest' = Latest
    BY <1>1 DEF VersionInv, VersionsGrow, Latest
<1> QED  BY <1>1, <1>3, <1>4, <1>5 DEF VersionInv

\* The file that r creates is torn, behind a version that is whole.
LEMMA OpenedVersion ==
    ASSUME StoreInv, NEW r \in Reviewers, VersionInv(r), OpenVersion(r)
    PROVE  VersionInv(r)'
<1> DEFINE v == Version(r, {}, TRUE)
           n == Len(skills)
<1>1. /\ skills \in Seq(Versions) /\ n \in Nat \ {0}
      /\ at[r] = "read" /\ at'[r] = "opened" /\ frame' = frame
    BY DEF OpenVersion, StoreInv, SharedOK, Processes
<1>2. /\ frame[r].draft.number = n + 1
      /\ ~skills[n].torn /\ More(frame[r].draft.steps, skills[n].steps)
    BY <1>1 DEF VersionInv, Latest
<1>3. frame[r].entry.task \in Tasks
    BY <1>1 DEF StoreInv, Processes, ProcessOK, FrameOK, Entries
<1>4. v \in Versions /\ v.torn
    BY <1>3 DEF Version, Versions
<1>5. PutVersion(n + 1, v)
    BY <1>2 DEF OpenVersion
<1> HIDE DEF v
<1>6. skills' = Append(skills, v)
    BY <1>1, <1>5 DEF PutVersion
<1>7. /\ Len(skills') = n + 1 /\ skills'[n + 1] = v
      /\ \A m \in 1 .. n : skills'[m] = skills[m]
    BY <1>1, <1>4, <1>6, AppendProperties
<1>8. VersionsGrow'
    <2> SUFFICES ASSUME NEW m \in 1 .. n
                 PROVE  /\ ~skills'[m].torn
                        /\ ~skills'[m + 1].torn =>
                             /\ skills'[m].steps \subseteq skills'[m + 1].steps
                             /\ skills'[m].steps # skills'[m + 1].steps
        BY <1>1, <1>7 DEF VersionsGrow
    <2>1. CASE m = n
        BY <1>1, <1>2, <1>4, <1>7, <2>1
    <2>2. CASE m # n
        <3>1. m \in 1 .. n - 1 /\ m + 1 \in 1 .. n
            BY <1>1, <2>2
        <3> QED  BY <1>7, <3>1 DEF VersionInv, VersionsGrow
    <2> QED  BY <2>1, <2>2
<1>9. n \in 1 .. n /\ (n + 1) - 1 = n /\ n + 1 > 1
    BY <1>1
<1> QED  BY <1>1, <1>2, <1>7, <1>8, <1>9 DEF VersionInv

\* The file that r fills is the last one.
LEMMA WrittenVersion ==
    ASSUME StoreInv, NEW r \in Reviewers, VersionInv(r), WriteVersion(r)
    PROVE  VersionInv(r)'
<1> DEFINE v == Version(r, frame[r].draft.steps, FALSE)
           n == Len(skills)
<1>1. /\ skills \in Seq(Versions) /\ n \in Nat \ {0}
      /\ at[r] = "opened" /\ at'[r] = "idle"
    BY DEF WriteVersion, Return, StoreInv, SharedOK, Processes
<1>2. /\ frame[r].draft.number = n /\ n > 1
      /\ More(frame[r].draft.steps, skills[n - 1].steps)
    BY <1>1 DEF VersionInv
<1>3. frame[r].entry.task \in Tasks /\ frame[r].draft.steps \subseteq Steps
    BY <1>1
    DEF StoreInv, Processes, ProcessOK, FrameOK, Entries, Drafts
<1>4. v \in Versions /\ ~v.torn /\ v.steps = frame[r].draft.steps
    BY <1>3 DEF Version, Versions
<1>5. PutVersion(n, v)
    BY <1>2 DEF WriteVersion
<1> HIDE DEF v
<1>6. skills' = [skills EXCEPT ![n] = v]
    BY <1>1, <1>5 DEF PutVersion
<1>7. n \in 1 .. Len(skills)
    BY <1>1
<1>8. /\ Len(skills') = n /\ skills'[n] = v
      /\ \A m \in 1 .. n - 1 : skills'[m] = skills[m]
    BY <1>1, <1>4, <1>7, <1>6, ExceptSeq
<1>9. VersionsGrow'
    <2> SUFFICES ASSUME NEW m \in 1 .. n - 1
                 PROVE  /\ ~skills'[m].torn
                        /\ ~skills'[m + 1].torn =>
                             /\ skills'[m].steps \subseteq skills'[m + 1].steps
                             /\ skills'[m].steps # skills'[m + 1].steps
        BY <1>1, <1>8 DEF VersionsGrow
    <2>1. ~skills[m].torn /\ skills'[m] = skills[m]
        BY <1>8 DEF VersionInv, VersionsGrow
    <2>2. CASE m = n - 1
        <3>1. m + 1 = n
            BY <1>1, <2>2
        <3> QED  BY <1>2, <1>4, <1>8, <2>1, <2>2, <3>1 DEF More
    <2>3. CASE m # n - 1
        <3>1. m + 1 \in 1 .. n - 1
            BY <1>1, <2>3
        <3> QED  BY <1>8, <2>1, <3>1 DEF VersionInv, VersionsGrow
    <2> QED  BY <2>2, <2>3
<1> QED  BY <1>1, <1>9 DEF VersionInv

LEMMA NextVersion ==
    ASSUME StoreInv, NEW r, Reviewers = {r}, VersionInv(r), [Next]_vars
    PROVE  VersionInv(r)'
<1>0. at \in [Processes -> {"idle", "loaded", "reloaded", "approved", "read",
                            "opened"}]
      /\ DOMAIN frame = Processes /\ r \in Processes /\ r \notin Tasks
    BY StoreAssumption DEF StoreInv, SharedOK, Processes
<1>1. CASE UNCHANGED vars
    BY <1>1, VersionStay DEF vars
<1>2. ASSUME NEW t \in Tasks, TaskStep(t) PROVE VersionInv(r)'
    <2>1. t # r
        BY <1>0
    <2>2. skills' = skills /\ at'[r] = at[r] /\ frame'[r] = frame[r]
        BY <1>0, <1>2, <2>1
        DEF TaskStep, Submit, Load, NothingToSubmit, SaveSubmission, TaskFails,
            Return
    <2> QED  BY <2>2, VersionStay
<1>3. ASSUME NEW p \in Processes, Reload(p) PROVE VersionInv(r)'
    <2>1. skills' = skills /\ at'[p] = "reloaded"
        BY <1>0, <1>3 DEF Reload
    <2>2. p # r => at'[r] = at[r] /\ frame'[r] = frame[r]
        BY <1>0, <1>3 DEF Reload
    <2> QED  BY <2>1, <2>2, VersionStay
<1>4. CASE Review(r)
    <2>1. CASE \/ NoNewVersion(r) \/ ReviewFails(r) \/ SaveDecision(r)
               \/ \E team \in Teams, i \in Items, v \in Verdicts :
                     Decide(r, team, i, v)
        <3>1. skills' = skills /\ at'[r] \in {"idle", "loaded", "approved"}
            BY <1>0, <2>1
            DEF NoNewVersion, ReviewFails, SaveDecision, Decide, Load, Return
        <3> QED  BY <3>1, VersionStay
    <2> QED
        BY <1>4, <2>1, ReadVersion, OpenedVersion, WrittenVersion DEF Review
<1> QED  BY <1>1, <1>2, <1>3, <1>4 DEF Next

\* With one dashboard, the versions of a skill grow, whatever it decides, in
\* whatever order, and wherever it stops.
THEOREM VersionsOfOneGrow ==
    ASSUME NEW r, Reviewers = {r}
    PROVE  Spec => []VersionsGrow
<1>1. Init => VersionInv(r)
    <2> SUFFICES ASSUME Init PROVE VersionInv(r)
        OBVIOUS
    <2>1. Len(skills) = 1 /\ at[r] = "idle"
        BY DEF Init, Processes
    <2> QED  BY <2>1 DEF VersionInv, VersionsGrow
<1>2. StoreInv /\ VersionInv(r) /\ [Next]_vars => VersionInv(r)'
    BY NextVersion
<1>3. VersionInv(r) => VersionsGrow
    BY DEF VersionInv
<1> QED  BY <1>1, <1>2, <1>3, StoreInvAlways, PTL DEF Spec

=============================================================================
