------------------------- MODULE OrganisationProofs -------------------------
(***************************************************************************)
(* Theorems about Organisation for any plan, any budget and prices, and    *)
(* any number of requirements, calls, failures and crashes.                *)
(***************************************************************************)
EXTENDS Organisation, WellFoundedInduction, FiniteSetTheorems,
        SequenceTheorems, TLAPS

-----------------------------------------------------------------------------
(* The log file.                                                           *)

Whole(by) ==
    [readable : {TRUE}, hash : Nat, prev : Nat, by : by, cost : Nat]

Lines(by) == {Torn(TRUE), Torn(FALSE)} \cup Whole(by)

LEMMA LineKinds ==
    ASSUME NEW by, NEW line \in Lines(by)
    PROVE  line.readable => line \in Whole(by) /\ line.hash \in Nat
<1>1. ASSUME NEW c PROVE ~Torn(c).readable
    BY DEF Torn
<1>2. CASE line \in Whole(by)
    BY <1>2 DEF Whole
<1> QED  BY <1>1, <1>2 DEF Lines

\* A set of numbers that is not empty has a least one.
LEMMA LeastExists ==
    ASSUME NEW S \in SUBSET Nat, S # {}
    PROVE  \E n \in S : \A k \in S : n <= k
<1> DEFINE Less == {p \in Nat \X Nat : p[1] < p[2]}
<1>1. IsWellFoundedOn(Less, Nat)
    BY NatLessThanWellFounded DEF OpToRel
<1>2. PICK n \in S : \A k \in S : <<k, n>> \notin Less
    BY <1>1, WFMin
<1>3. ASSUME NEW k \in S PROVE n <= k
    <2>1. <<k, n>> \in Nat \X Nat /\ ~(<<k, n>>[1] < <<k, n>>[2])
        BY <1>2
    <2> QED  BY <2>1
<1> QED  BY <1>3

\* A set of numbers with an upper bound has a greatest one: the least of its
\* upper bounds.
LEMMA MaximumExists ==
    ASSUME NEW S \in SUBSET Nat, S # {},
           NEW m \in Nat, \A x \in S : x <= m
    PROVE  Max(S) \in S /\ \A y \in S : y <= Max(S)
<1> DEFINE Above == {n \in Nat : \A x \in S : x <= n}
<1>1. m \in Above /\ Above \subseteq Nat
    OBVIOUS
<1>2. PICK n \in Above : \A k \in Above : n <= k
    <2> HIDE DEF Above
    <2> QED  BY <1>1, LeastExists
<1>3. n \in S
    <2> SUFFICES ASSUME n \notin S PROVE FALSE
        OBVIOUS
    <2> PICK x \in S : TRUE
        OBVIOUS
    <2>1. n \in Nat /\ \A y \in S : y < n
        BY <1>2
    <2>2. n - 1 \in Above
        BY <2>1
    <2> QED  BY <1>2, <2>1, <2>2
<1>4. \E x \in S : \A y \in S : x >= y
    BY <1>2, <1>3
<1> QED  BY <1>4 DEF Max

LEMMA LastEntry ==
    ASSUME NEW by, NEW lines \in Seq(Lines(by))
    PROVE  /\ LastEntryHash(lines) \in Nat
           /\ Entries(lines) # {} =>
                 /\ Max(Entries(lines)) \in Entries(lines)
                 /\ \A i \in Entries(lines) : i <= Max(Entries(lines))
<1>1. /\ Entries(lines) \in SUBSET Nat
      /\ Len(lines) \in Nat /\ \A i \in Entries(lines) : i <= Len(lines)
    BY DEF Entries
<1>2. Entries(lines) # {} =>
         /\ Max(Entries(lines)) \in Entries(lines)
         /\ \A i \in Entries(lines) : i <= Max(Entries(lines))
    BY <1>1, MaximumExists
<1>3. ASSUME NEW i \in Entries(lines) PROVE lines[i].hash \in Nat
    <2>1. lines[i] \in Lines(by) /\ lines[i].readable
        BY DEF Entries
    <2> QED  BY <2>1, LineKinds
<1>4. LastEntryHash(lines) \in Nat
    BY <1>2, <1>3 DEF LastEntryHash, GenesisHash
<1> QED  BY <1>2, <1>4

\* A line that is no entry changes neither the entries nor their links.
LEMMA SameEntries ==
    ASSUME NEW by, NEW lines \in Seq(Lines(by)), NEW new \in Seq(Lines(by)),
           Entries(new) = Entries(lines),
           \A i \in Entries(lines) : new[i] = lines[i]
    PROVE  /\ LastEntryHash(new) = LastEntryHash(lines)
           /\ Linked(lines) => Linked(new)
BY LastEntry DEF LastEntryHash, Linked

LEMMA TornAppended ==
    ASSUME NEW by, NEW lines \in Seq(Lines(by))
    PROVE  /\ AppendTorn(lines) \in Seq(Lines(by))
           /\ LastEntryHash(AppendTorn(lines)) = LastEntryHash(lines)
           /\ Linked(lines) => Linked(AppendTorn(lines))
<1> DEFINE new == AppendTorn(lines)
<1>1. CASE IsOpen(lines)
    BY <1>1 DEF AppendTorn
<1>2. CASE ~IsOpen(lines)
    <2> DEFINE rest == Torn(FALSE)
    <2>0. rest \in Lines(by) /\ ~rest.readable
        BY DEF Lines, Torn
    <2>1. /\ new = Append(lines, rest)
          /\ new \in Seq(Lines(by)) /\ Len(new) = Len(lines) + 1
          /\ \A i \in 1..Len(lines) : new[i] = lines[i]
          /\ ~new[Len(lines) + 1].readable
        <3>1. new = Append(lines, rest)
            BY <1>2 DEF AppendTorn
        <3> HIDE DEF new, rest
        <3> QED  BY <2>0, <3>1, AppendProperties
    <2>2. Entries(new) = Entries(lines)
        <3> HIDE DEF new, rest
        <3>1. ASSUME NEW i \in 1..Len(lines) + 1
              PROVE  i \in Entries(new) <=> i \in Entries(lines)
            <4>1. CASE i = Len(lines) + 1
                BY <2>1, <4>1 DEF Entries
            <4>2. CASE i # Len(lines) + 1
                BY <2>1, <4>2 DEF Entries
            <4> QED  BY <4>1, <4>2
        <3>2. /\ Entries(new) \subseteq 1..Len(lines) + 1
              /\ Entries(lines) \subseteq 1..Len(lines) + 1
            BY <2>1, LenProperties DEF Entries
        <3> QED  BY <3>1, <3>2
    <2>3. \A i \in Entries(lines) : new[i] = lines[i]
        BY <2>1 DEF Entries
    <2> HIDE DEF new
    <2>4. new = AppendTorn(lines)
        BY DEF new
    <2> QED  BY <2>1, <2>2, <2>3, <2>4, SameEntries, ZenonT(30)
<1> QED  BY <1>1, <1>2

\* An entry that names the last one before it links up, or ends in the torn
\* line it is written behind.
LEMMA EntryAppended ==
    ASSUME NEW by, NEW lines \in Seq(Lines(by)),
           NEW e \in Whole(by)
    PROVE  /\ AppendToFile(lines, e) \in Seq(Lines(by))
           /\ Linked(lines) /\ e.prev = LastEntryHash(lines) =>
                 Linked(AppendToFile(lines, e))
<1> DEFINE new == AppendToFile(lines, e)
<1>1. CASE IsOpen(lines)
    <2>1. /\ new = [lines EXCEPT ![Len(lines)] = Torn(TRUE)]
          /\ Len(lines) \in 1..Len(lines) /\ ~lines[Len(lines)].readable
        BY <1>1 DEF AppendToFile, IsOpen
    <2>2. /\ new \in Seq(Lines(by)) /\ Len(new) = Len(lines)
          /\ \A i \in 1..Len(lines) \ {Len(lines)} : new[i] = lines[i]
          /\ ~new[Len(lines)].readable
        <3> DEFINE rest == Torn(TRUE)
        <3>1. rest \in Lines(by) /\ ~rest.readable
            BY DEF Lines, Torn
        <3>2. new = [lines EXCEPT ![Len(lines)] = rest]
            BY <2>1
        <3>3. Len(lines) \in 1..Len(lines)
            BY <2>1
        <3> HIDE DEF new, rest
        <3> QED  BY <3>1, <3>2, <3>3, ExceptSeq
    <2> HIDE DEF new
    <2>3. Entries(new) = Entries(lines)
        <3>1. ASSUME NEW i \in 1..Len(lines)
              PROVE  i \in Entries(new) <=> i \in Entries(lines)
            <4>1. CASE i = Len(lines)
                BY <2>1, <2>2, <4>1 DEF Entries
            <4>2. CASE i # Len(lines)
                BY <2>2, <4>2 DEF Entries
            <4> QED  BY <4>1, <4>2
        <3>2. /\ Entries(new) \subseteq 1..Len(lines)
              /\ Entries(lines) \subseteq 1..Len(lines)
            BY <2>2 DEF Entries
        <3> QED  BY <3>1, <3>2
    <2>4. \A i \in Entries(lines) : new[i] = lines[i]
        BY <2>1, <2>2 DEF Entries
    <2> QED  BY <2>2, <2>3, <2>4, SameEntries DEF new
<1>2. CASE ~IsOpen(lines)
    <2>1. /\ new = Append(lines, e)
          /\ new \in Seq(Lines(by)) /\ Len(new) = Len(lines) + 1
          /\ \A i \in 1..Len(lines) : new[i] = lines[i]
          /\ new[Len(lines) + 1] = e /\ e.readable /\ Len(lines) \in Nat
        <3>1. new = Append(lines, e)
            BY <1>2 DEF AppendToFile
        <3>2. e \in Lines(by) /\ e.readable
            BY DEF Lines, Whole
        <3> HIDE DEF new
        <3> QED  BY <3>1, <3>2, AppendProperties, LenProperties
    <2>2. Entries(new) = Entries(lines) \cup {Len(lines) + 1}
        <3> HIDE DEF new
        <3> QED  BY <2>1 DEF Entries
    <2>3. ASSUME Linked(lines), e.prev = LastEntryHash(lines)
          PROVE  Linked(new)
        <3> HIDE DEF new
        <3>1. Entries(lines) \subseteq 1..Len(lines)
            BY DEF Entries
        <3> SUFFICES ASSUME NEW i \in Entries(new), NEW j \in Entries(new),
                            i < j, Entries(new) \cap (i + 1..j - 1) = {}
                     PROVE  new[j].prev = new[i].hash
            BY DEF Linked
        <3>2. i \in Entries(lines)
            BY <2>1, <2>2, <3>1
        <3>3. CASE j \in Entries(lines)
            <4>1. Entries(lines) \cap (i + 1..j - 1) = {}
                BY <2>2
            <4>2. lines[j].prev = lines[i].hash
                BY <2>3, <3>2, <3>3, <4>1 DEF Linked
            <4> QED  BY <2>1, <3>1, <3>2, <3>3, <4>2
        <3>4. CASE j = Len(lines) + 1
            <4>1. i = Max(Entries(lines))
                <5>1. /\ Max(Entries(lines)) \in Entries(lines)
                      /\ i <= Max(Entries(lines))
                    BY <3>2, LastEntry
                <5>2. Max(Entries(lines)) \notin i + 1..j - 1
                    BY <2>2, <5>1
                <5> QED  BY <2>1, <3>1, <3>2, <3>4, <5>1, <5>2
            <4>2. e.prev = lines[i].hash
                BY <2>3, <3>2, <4>1 DEF LastEntryHash
            <4> QED  BY <2>1, <3>1, <3>2, <3>4, <4>2
        <3> QED  BY <2>2, <3>3, <3>4
    <2> QED  BY <2>1, <2>3
<1> QED  BY <1>1, <1>2

-----------------------------------------------------------------------------
(* Types: also what the log and the branches hold.                         *)

Commits == [by : Tasks, files : SUBSET Tasks]

TypeInv ==
    /\ TypeOK
    /\ log \in Seq(Lines(Actors))
    /\ history \in [Branches -> Seq(Commits)]

LEMMA TypeInit == Init => TypeInv
<1> SUFFICES ASSUME Init PROVE TypeInv
    OBVIOUS
<1> USE OrganisationAssumption
<1>1. TypeOK
    <2>1. /\ parallel \in BOOLEAN /\ beside \in BOOLEAN /\ raced \in BOOLEAN
          /\ answered \in [Actors -> BOOLEAN]
        BY DEF Init
    <2>2. /\ pc \in [Actors -> {"idle", "work", "read", "append", "done"}
                                   \cup InGit]
          /\ entry \in [Actors -> [kind : {"none", "llm_cost", "workflow"},
                                   cost : Nat]]
        BY DEF Init, Nothing
    <2>3. /\ calls \in [Actors -> Nat] /\ seen \in [Actors -> Nat]
          /\ spent \in 0..Budget /\ made \in Nat /\ unlogged \in Nat
          /\ base \in Nat /\ runs \in Nat /\ faults \in Nat
        BY DEF Init, GenesisHash
    <2>4. /\ head \in Branches /\ staged \subseteq Tasks
          /\ abandoned \subseteq Tasks
          /\ commit \in [Tasks -> [branch : Branches, number : Nat]]
        BY DEF Init, None, Branches
    <2> QED  BY <2>1, <2>2, <2>3, <2>4 DEF Init, TypeOK
<1>2. log \in Seq(Lines(Actors)) /\ history \in [Branches -> Seq(Commits)]
    BY DEF Init
<1> QED  BY <1>1, <1>2 DEF TypeInv

\* What an agent logs.
LEMMA EntryOfActor ==
    ASSUME TypeInv, NEW a \in Actors
    PROVE  Entry(made + 1, seen[a], a, entry[a].cost) \in Whole(Actors)
BY DEF TypeInv, TypeOK, Entry, Whole

LEMMA CallTypes ==
    ASSUME TypeInv, NEW a \in Actors, AskModel(a)
    PROVE  TypeInv'
<1> USE OrganisationAssumption
<1>0. calls' \in [Actors -> Nat]
    BY DEF AskModel, TypeInv, TypeOK
<1>1. UNCHANGED <<lead, unlogged, audit, git, bounds>>
    BY DEF AskModel
<1>2. ASSUME NEW cost \in Costs, Record(a, cost)
      PROVE  /\ spent' \in 0..Budget /\ answered' \in [Actors -> BOOLEAN]
             /\ entry' \in [Actors -> [kind : {"none", "llm_cost", "workflow"},
                                       cost : Nat]]
             /\ pc' \in [Actors -> {"idle", "work", "read", "append", "done"}
                                       \cup InGit]
    <2>1. CASE spent + cost > Budget
        BY <1>2, <2>1 DEF Record, TypeInv, TypeOK
    <2>2. CASE ~(spent + cost > Budget)
        <3>1. spent' = spent + cost /\ cost \in Nat
            BY <1>2, <2>2 DEF Record
        <3>2. /\ answered' = [answered EXCEPT ![a] = TRUE]
              /\ entry' = [entry EXCEPT ![a] =
                              [kind |-> "llm_cost", cost |-> cost]]
              /\ pc' = [pc EXCEPT ![a] = "read"]
            BY <1>2, <2>2 DEF Record, Goto
        <3>3. spent' \in 0..Budget
            BY <2>2, <3>1 DEF TypeInv, TypeOK
        <3>4. answered' \in [Actors -> BOOLEAN]
            BY <3>2 DEF TypeInv, TypeOK
        <3> QED  BY <3>1, <3>2, <3>3, <3>4 DEF TypeInv, TypeOK
    <2> QED  BY <2>1, <2>2
<1>3. CASE /\ answered' = [answered EXCEPT ![a] = FALSE]
           /\ UNCHANGED <<spent, entry, pc>>
    <2>1. answered' \in [Actors -> BOOLEAN]
        BY <1>3 DEF TypeInv, TypeOK
    <2> QED  BY <1>0, <1>1, <1>3, <2>1 DEF TypeInv, TypeOK, audit, git, bounds
<1>4. CASE \E cost \in Costs : Record(a, cost)
    BY <1>0, <1>1, <1>2, <1>4 DEF TypeInv, TypeOK, audit, git, bounds
<1> QED  BY <1>3, <1>4 DEF AskModel

LEMMA LogTypes ==
    ASSUME TypeInv, NEW a \in Actors,
           ReadLast(a) \/ AppendLine(a) \/ AppendFails(a)
    PROVE  TypeInv'
<1>1. CASE ReadLast(a)
    <2>1. LastEntryHash(log) \in Nat
        BY LastEntry DEF TypeInv
    <2>2. raced' \in BOOLEAN
        BY <1>1 DEF ReadLast
    <2> QED  BY <1>1, <2>1, <2>2
             DEF ReadLast, Goto, meter, git, bounds, TypeInv, TypeOK
<1>2. CASE AppendLine(a)
    <2>1. log' \in Seq(Lines(Actors))
        BY <1>2, EntryOfActor, EntryAppended DEF AppendLine, TypeInv
    <2>2. entry[a].cost \in Nat /\ AfterEntry(a) \in {"work", "done"}
        BY DEF TypeInv, TypeOK, AfterEntry
    <2>3. made' \in Nat /\ unlogged' \in Nat
        BY <1>2, <2>2 DEF AppendLine, TypeInv, TypeOK
    <2>4. /\ entry' \in [Actors -> [kind : {"none", "llm_cost", "workflow"},
                                    cost : Nat]]
          /\ pc' \in [Actors -> {"idle", "work", "read", "append", "done"}
                                    \cup InGit]
        BY <1>2, <2>2 DEF AppendLine, Goto, Nothing, TypeInv, TypeOK
    <2> QED  BY <1>2, <2>1, <2>3, <2>4
             DEF AppendLine, git, bounds, TypeInv, TypeOK
<1>3. CASE AppendFails(a)
    <2>1. log' \in Seq(Lines(Actors))
        BY <1>3, TornAppended DEF AppendFails, TypeInv
    <2>2. entry[a].cost \in Nat /\ AfterEntry(a) \in {"work", "done"}
        BY DEF TypeInv, TypeOK, AfterEntry
    <2>3. unlogged' \in Nat /\ faults' \in Nat
        BY <1>3, <2>2 DEF AppendFails, Fault, TypeInv, TypeOK
    <2>4. /\ entry' \in [Actors -> [kind : {"none", "llm_cost", "workflow"},
                                    cost : Nat]]
          /\ pc' \in [Actors -> {"idle", "work", "read", "append", "done"}
                                    \cup InGit]
        BY <1>3, <2>2 DEF AppendFails, Goto, Nothing, TypeInv, TypeOK
    <2>5. /\ answered' \in [Actors -> BOOLEAN]
          /\ lead' \in {"pm", "planner", "tasks", "end", "raised"}
        BY <1>3 DEF AppendFails, TypeInv, TypeOK
    <2> QED  BY <1>3, <2>1, <2>3, <2>4, <2>5
             DEF AppendFails, git, TypeInv, TypeOK
<1> QED  BY <1>1, <1>2, <1>3

LEMMA PipelineTypes ==
    ASSUME TypeInv,
           LeadReturns \/ Join \/ NewRequirement \/ Crash
           \/ \E i \in 1..Len(Order) : StartTask(i)
    PROVE  TypeInv'
<1> USE DEF meter, audit, git, bounds
<1>1. CASE LeadReturns \/ Join
    BY <1>1 DEF LeadReturns, Join, TypeInv, TypeOK
<1>2. CASE \E i \in 1..Len(Order) : StartTask(i)
    BY <1>2 DEF StartTask, Goto, TypeInv, TypeOK
<1>3. ASSUME Reset
      PROVE  /\ runs' \in Nat /\ parallel' \in BOOLEAN
             /\ beside' \in BOOLEAN /\ lead' = "pm"
             /\ pc' \in [Actors -> {"idle", "work", "read", "append", "done"}
                                       \cup InGit]
             /\ calls' \in [Actors -> Nat] /\ answered' \in [Actors -> BOOLEAN]
             /\ entry' \in [Actors -> [kind : {"none", "llm_cost", "workflow"},
                                       cost : Nat]]
             /\ commit' \in [Tasks -> [branch : Branches, number : Nat]]
    BY <1>3 DEF Reset, Nothing, None, Branches, TypeInv, TypeOK
<1>4. CASE NewRequirement
    BY <1>3, <1>4 DEF NewRequirement, TypeInv, TypeOK
<1>5. CASE Crash
    <2>1. log' \in Seq(Lines(Actors))
        BY <1>5, TornAppended DEF Crash, TypeInv
    <2>2. base' \in Nat /\ spent' \in 0..Budget /\ unlogged' \in Nat
        BY <1>5, <2>1, OrganisationAssumption DEF Crash
    <2>3. faults' \in Nat /\ abandoned' \subseteq Tasks
        BY <1>5 DEF Crash, Fault, TypeInv, TypeOK
    <2>4. UNCHANGED <<seen, made, raced, head, staged, history>>
        BY <1>5 DEF Crash
    <2> QED  BY <1>3, <1>5, <2>1, <2>2, <2>3, <2>4 DEF Crash, TypeInv, TypeOK
<1> QED  BY <1>1, <1>2, <1>4, <1>5

LEMMA TaskTypes ==
    ASSUME TypeInv, NEW t \in Tasks,
           GraphEnds(t) \/ GraphRaises(t) \/ CreateBranch(t) \/ AddFile(t)
           \/ Commit(t) \/ ReadHead(t) \/ GitFails(t)
    PROVE  TypeInv'
<1> USE DEF meter, audit, git, bounds
<1>0. t \in Actors /\ t \in Branches
    BY DEF Actors, Branches
<1>1. ASSUME Return(t)
      PROVE  /\ pc' \in [Actors -> {"idle", "work", "read", "append", "done"}
                                       \cup InGit]
             /\ entry' \in [Actors -> [kind : {"none", "llm_cost", "workflow"},
                                       cost : Nat]]
    <2>1. CASE parallel
        BY <1>0, <1>1, <2>1 DEF Return, Goto, TypeInv, TypeOK
    <2>2. CASE ~parallel
        <3>1. /\ entry' = [entry EXCEPT ![t] =
                              [kind |-> "workflow", cost |-> 0]]
              /\ pc' = [pc EXCEPT ![t] = "read"]
            BY <1>1, <2>2 DEF Return, Goto
        <3> QED  BY <1>0, <3>1 DEF TypeInv, TypeOK
    <2> QED  BY <2>1, <2>2
<1>2. CASE GraphEnds(t)
    <2>1. CASE Return(t)
        BY <1>1, <1>2, <2>1 DEF GraphEnds, TypeInv, TypeOK
    <2>2. CASE Goto(t, "branch") /\ UNCHANGED entry
        BY <1>0, <1>2, <2>2 DEF GraphEnds, Goto, InGit, TypeInv, TypeOK
    <2> QED  BY <1>2, <2>1, <2>2 DEF GraphEnds
<1>3. CASE GraphRaises(t)
    BY <1>0, <1>3 DEF GraphRaises, Goto, TypeInv, TypeOK
<1>4. CASE CreateBranch(t) \/ AddFile(t)
    BY <1>0, <1>4 DEF CreateBranch, AddFile, Goto, InGit, TypeInv, TypeOK
<1>5. CASE Commit(t)
    <2> DEFINE c == [by |-> t, files |-> staged]
    <2>1. c \in Commits /\ history[head] \in Seq(Commits) /\ head \in Branches
        BY DEF TypeInv, TypeOK, Commits
    <2>2. history' = [history EXCEPT ![head] = Append(history[head], c)]
        BY <1>5 DEF Commit, TypeInv, TypeOK
    <2> HIDE DEF c
    <2>3. history' \in [Branches -> Seq(Commits)]
        BY <2>1, <2>2 DEF TypeInv
    <2>4. pc' \in [Actors -> {"idle", "work", "read", "append", "done"}
                                 \cup InGit]
        BY <1>0, <1>5 DEF Commit, Goto, InGit, TypeInv, TypeOK
    <2> QED  BY <1>5, <2>3, <2>4 DEF Commit, TypeInv, TypeOK
<1>6. CASE ReadHead(t)
    <2>1. [branch |-> head, number |-> Len(history[head])]
              \in [branch : Branches, number : Nat]
        BY DEF TypeInv, TypeOK
    <2>2. commit' \in [Tasks -> [branch : Branches, number : Nat]]
        BY <1>6, <2>1 DEF ReadHead, TypeInv, TypeOK
    <2> QED  BY <1>1, <1>6, <2>2 DEF ReadHead, TypeInv, TypeOK
<1>7. CASE GitFails(t)
    <2>1. faults' \in Nat
        BY <1>7 DEF GitFails, Fault, TypeInv, TypeOK
    <2>2. abandoned' \subseteq Tasks
        BY <1>7 DEF GitFails, TypeInv, TypeOK
    <2> QED  BY <1>1, <1>7, <2>1, <2>2 DEF GitFails, TypeInv, TypeOK
<1> QED  BY <1>2, <1>3, <1>4, <1>5, <1>6, <1>7

LEMMA TypeStep == TypeInv /\ [Next]_vars => TypeInv'
<1> SUFFICES ASSUME TypeInv, [Next]_vars PROVE TypeInv'
    OBVIOUS
<1>1. CASE UNCHANGED vars
    BY <1>1 DEF vars, meter, audit, git, bounds, TypeInv, TypeOK
<1>2. CASE Next
    BY <1>2, CallTypes, LogTypes, PipelineTypes, TaskTypes DEF Next
<1> QED  BY <1>1, <1>2

LEMMA TypeAlways == Spec => []TypeInv
BY TypeInit, TypeStep, PTL DEF Spec

\* Type correctness: also, the tracker never goes beyond its budget, whatever
\* the agents do at the same time.
THEOREM TypeCorrect == Spec => []TypeOK
<1>1. TypeInv => TypeOK
    BY DEF TypeInv
<1> QED  BY <1>1, TypeAlways, PTL

-----------------------------------------------------------------------------
(* Who is at work: PM and planner before the tasks, and tasks that do not  *)
(* run in parallel in their order.                                         *)

Asking == {"pm", "planner"}

OrderInv ==
    /\ parallel => beside
    /\ pc[Lead] \in {"work", "read", "append"}
    /\ pc[Lead] \in {"read", "append"} => entry[Lead].kind = "llm_cost"
    /\ lead \in Asking => \A t \in Tasks : pc[t] = "idle"
    /\ lead \notin Asking => pc[Lead] = "work"
    /\ ~parallel =>
          \A i, j \in 1..Len(Order) :
              i < j /\ pc[Order[j]] # "idle" => pc[Order[i]] = "done"

\* Two actors are never in the log or in git at once.
LEMMA OneAtATime ==
    ASSUME TypeInv, OrderInv, ~parallel,
           NEW a \in Actors, NEW b \in Actors,
           pc[a] \in {"read", "append"} \cup InGit,
           pc[b] \in {"read", "append"} \cup InGit
    PROVE  a = b
<1> SUFFICES ASSUME a # b PROVE FALSE
    OBVIOUS
<1>1. \A s \in {"read", "append"} \cup InGit : s \notin {"idle", "done", "work"}
    BY DEF InGit
<1>2. ASSUME NEW t \in Tasks, pc[Lead] \in {"read", "append"} \cup InGit
      PROVE  pc[t] = "idle"
    BY <1>1, <1>2 DEF OrderInv
<1>3. a \in Tasks /\ b \in Tasks
    BY <1>1, <1>2 DEF Actors
<1>4. PICK i \in 1..Len(Order), j \in 1..Len(Order) :
          a = Order[i] /\ b = Order[j]
    BY <1>3, OrganisationAssumption
<1>5. i < j \/ j < i
    BY <1>4, OrganisationAssumption, LenProperties
<1> QED  BY <1>1, <1>4, <1>5 DEF OrderInv

LEMMA TaskMoves ==
    ASSUME TypeInv, OrderInv, NEW t \in Tasks, pc[t] \notin {"idle", "done"},
           \A b \in Actors \ {t} : pc'[b] = pc[b] /\ entry'[b] = entry[b],
           lead' \in {lead, "raised"}, UNCHANGED <<parallel, beside>>
    PROVE  OrderInv'
<1>1. Lead # t /\ Lead \in Actors /\ Tasks \subseteq Actors
    BY OrganisationAssumption DEF Actors
<1>2. lead \notin Asking /\ lead' \notin Asking /\ pc[Lead] = "work"
    BY DEF OrderInv, Asking
<1>3. ASSUME ~parallel, NEW i \in 1..Len(Order), NEW j \in 1..Len(Order),
             i < j, pc'[Order[j]] # "idle"
      PROVE  pc'[Order[i]] = "done"
    <2>1. Order[i] \in Tasks /\ Order[j] \in Tasks
        BY OrganisationAssumption
    <2>2. pc[Order[j]] # "idle"
        BY <1>1, <1>3, <2>1
    <2>3. pc[Order[i]] = "done"
        BY <1>3, <2>2 DEF OrderInv
    <2> QED  BY <1>1, <2>1, <2>3
<1> QED  BY <1>1, <1>2, <1>3 DEF OrderInv

LEMMA LeadMoves ==
    ASSUME TypeInv, OrderInv, lead \in Asking, lead' = lead,
           \A t \in Tasks : pc'[t] = pc[t],
           pc'[Lead] \in {"work", "read", "append"},
           pc'[Lead] \in {"read", "append"} => entry'[Lead].kind = "llm_cost",
           UNCHANGED <<parallel, beside>>
    PROVE  OrderInv'
<1>1. \A i \in 1..Len(Order) : Order[i] \in Tasks
    BY OrganisationAssumption
<1> QED  BY <1>1 DEF OrderInv

LEMMA OrderOfCalls ==
    ASSUME TypeInv, OrderInv, NEW a \in Actors,
           AskModel(a) \/ ReadLast(a) \/ AppendLine(a) \/ AppendFails(a)
    PROVE  OrderInv'
<1> USE DEF bounds
<1>1. /\ \A b \in Actors \ {a} : pc'[b] = pc[b] /\ entry'[b] = entry[b]
      /\ UNCHANGED <<parallel, beside>>
    BY DEF AskModel, Record, ReadLast, AppendLine, AppendFails, Goto, meter,
           TypeInv, TypeOK
<1>2. pc[a] \in {"work", "read", "append"}
    BY DEF AskModel, ReadLast, AppendLine, AppendFails
<1>3. lead' \in {lead, "raised"}
    BY DEF AskModel, ReadLast, AppendLine, AppendFails
<1>4. CASE a \in Tasks
    BY <1>1, <1>2, <1>3, <1>4, TaskMoves
<1>5. CASE a = Lead
    <2>1. lead \in Asking
        <3>1. CASE AskModel(a)
            BY <1>5, <3>1, OrganisationAssumption
            DEF AskModel, Allowed, Asking, TypeInv, TypeOK
        <3>2. CASE ~AskModel(a)
            BY <1>5, <3>2
            DEF ReadLast, AppendLine, AppendFails, OrderInv
        <3> QED  BY <3>1, <3>2
    <2>2. CASE AskModel(a)
        <3>1. pc[a] = "work" /\ lead' = lead
            BY <2>2 DEF AskModel
        <3>2. UNCHANGED pc \/ (pc'[a] = "read" /\ entry'[a].kind = "llm_cost")
            BY <2>2 DEF AskModel, Record, Goto, TypeInv, TypeOK
        <3> QED  BY <1>1, <1>5, <2>1, <3>1, <3>2, LeadMoves,
                    OrganisationAssumption DEF Actors
    <2>3. CASE ReadLast(a)
        <3>1. pc'[a] = "append" /\ lead' = lead /\ entry' = entry
            BY <2>3 DEF ReadLast, Goto, meter, TypeInv, TypeOK
        <3>2. entry[a].kind = "llm_cost"
            BY <1>5, <2>3 DEF ReadLast, OrderInv
        <3> QED  BY <1>1, <1>5, <2>1, <3>1, <3>2, LeadMoves,
                    OrganisationAssumption DEF Actors
    <2>4. CASE AppendLine(a) \/ AppendFails(a)
        <3>1. entry[a].kind = "llm_cost"
            BY <1>5, <2>4 DEF AppendLine, AppendFails, OrderInv
        <3>2. pc'[a] = "work" /\ lead' = lead
            BY <2>4, <3>1
            DEF AppendLine, AppendFails, AfterEntry, Goto, TypeInv, TypeOK
        <3> QED  BY <1>1, <1>5, <2>1, <3>2, LeadMoves,
                    OrganisationAssumption DEF Actors
    <2> QED  BY <2>2, <2>3, <2>4
<1> QED  BY <1>4, <1>5 DEF Actors

LEMMA OrderOfPipeline ==
    ASSUME TypeInv, OrderInv,
           LeadReturns \/ Join \/ NewRequirement \/ Crash
           \/ \E i \in 1..Len(Order) : StartTask(i)
    PROVE  OrderInv'
<1> USE DEF meter, audit, git, bounds
<1>1. CASE LeadReturns \/ Join
    BY <1>1 DEF LeadReturns, Join, OrderInv, Asking
<1>2. ASSUME NEW k \in 1..Len(Order), StartTask(k) PROVE OrderInv'
    <2>1. /\ lead = "tasks" /\ lead' = lead /\ pc[Order[k]] = "idle"
          /\ parallel \/ \A j \in 1..k - 1 : pc[Order[j]] = "done"
          /\ pc' = [pc EXCEPT ![Order[k]] = "work"]
          /\ UNCHANGED <<parallel, beside, entry>>
        BY <1>2 DEF StartTask, Goto
    <2>2. /\ \A i \in 1..Len(Order) : Order[i] \in Tasks
          /\ Lead \notin Tasks /\ Lead \in Actors /\ Tasks \subseteq Actors
          /\ \A i, j \in 1..Len(Order) : Order[i] = Order[j] => i = j
          /\ Len(Order) \in Nat
        <3>1. Order \in Seq(Tasks) /\ DOMAIN Order = 1..Len(Order)
            BY OrganisationAssumption
        <3> QED  BY <3>1, OrganisationAssumption, LenProperties
                 DEF Actors, IsInjective
    <2>3. \A t \in Actors : pc'[t] = IF t = Order[k] THEN "work" ELSE pc[t]
        BY <2>1 DEF TypeInv, TypeOK
    <2>4. ASSUME ~parallel, NEW i \in 1..Len(Order), NEW j \in 1..Len(Order),
                 i < j, pc'[Order[j]] # "idle"
          PROVE  pc'[Order[i]] = "done"
        <3>1. CASE j = k
            BY <2>1, <2>2, <2>3, <2>4, <3>1
        <3>2. CASE j # k
            <4>1. pc[Order[j]] # "idle"
                BY <2>2, <2>3, <2>4, <3>2
            <4>2. pc[Order[i]] = "done"
                BY <2>4, <4>1 DEF OrderInv
            <4> QED  BY <2>1, <2>2, <2>3, <4>2
        <3> QED  BY <3>1, <3>2
    <2> QED  BY <2>1, <2>2, <2>3, <2>4 DEF OrderInv, Asking
<1>3. ASSUME Reset PROVE OrderInv'
    <2>1. \A i \in 1..Len(Order) : Order[i] \in Tasks /\ Order[i] # Lead
        BY OrganisationAssumption
    <2>2. \A a \in Actors : pc'[a] = IF a = Lead THEN "work" ELSE "idle"
        BY <1>3 DEF Reset
    <2>3. (parallel' => beside') /\ lead' = "pm"
        BY <1>3 DEF Reset
    <2>4. Lead \in Actors /\ Tasks \subseteq Actors /\ Lead \notin Tasks
        BY OrganisationAssumption DEF Actors
    <2> QED  BY <2>1, <2>2, <2>3, <2>4 DEF OrderInv, Asking
<1> QED  BY <1>1, <1>2, <1>3 DEF NewRequirement, Crash

LEMMA OrderOfTasks ==
    ASSUME TypeInv, OrderInv, NEW t \in Tasks,
           GraphEnds(t) \/ GraphRaises(t) \/ CreateBranch(t) \/ AddFile(t)
           \/ Commit(t) \/ ReadHead(t) \/ GitFails(t)
    PROVE  OrderInv'
<1> USE DEF meter, audit, bounds
<1>1. \A b \in Actors \ {t} : pc'[b] = pc[b] /\ entry'[b] = entry[b]
    BY DEF GraphEnds, GraphRaises, CreateBranch, AddFile, Commit, ReadHead,
           GitFails, Return, Goto, TypeInv, TypeOK
<1>2. pc[t] \in {"work", "branch", "add", "commit", "sha"}
    BY DEF GraphEnds, GraphRaises, CreateBranch, AddFile, Commit, ReadHead,
           GitFails, InGit
<1>3. lead' = lead /\ UNCHANGED <<parallel, beside>>
    BY DEF GraphEnds, GraphRaises, CreateBranch, AddFile, Commit, ReadHead,
           GitFails
<1> QED  BY <1>1, <1>2, <1>3, TaskMoves

LEMMA OrderInit == Init => OrderInv
<1> SUFFICES ASSUME Init PROVE OrderInv
    OBVIOUS
<1>1. Lead \in Actors /\ Tasks \subseteq Actors /\ Lead \notin Tasks
    BY OrganisationAssumption DEF Actors
<1>2. \A i \in 1..Len(Order) : Order[i] \in Tasks
    BY OrganisationAssumption
<1> QED  BY <1>1, <1>2 DEF Init, OrderInv, Asking

LEMMA OrderStep == TypeInv /\ OrderInv /\ [Next]_vars => OrderInv'
<1> SUFFICES ASSUME TypeInv, OrderInv, [Next]_vars PROVE OrderInv'
    OBVIOUS
<1>1. CASE UNCHANGED vars
    BY <1>1 DEF vars, meter, bounds, OrderInv
<1>2. CASE Next
    BY <1>2, OrderOfCalls, OrderOfPipeline, OrderOfTasks DEF Next
<1> QED  BY <1>1, <1>2

-----------------------------------------------------------------------------
(* The chain: without a race the actor that writes has read the last hash, *)
(* and is alone.                                                           *)

Intact ==
    /\ Linked(log)
    /\ \A a, b \in Actors : pc[a] = "append" /\ pc[b] = "append" => a = b
    /\ \A a \in Actors : pc[a] = "append" => seen[a] = LastEntryHash(log)

ChainInv == (raced => beside) /\ (~raced => Intact)

LEMMA ChainInit == Init => ChainInv
<1>1. Init => Entries(log) = {}
    BY DEF Init, Entries
<1>2. Init => \A a \in Actors : pc[a] # "append"
    BY DEF Init
<1> QED  BY <1>1, <1>2 DEF Init, ChainInv, Intact, Linked

\* Steps outside of the log.
LEMMA ChainKept ==
    ASSUME ChainInv, UNCHANGED <<log, raced, seen>>, beside => beside',
           \A a \in Actors : pc'[a] = "append" => pc[a] = "append"
    PROVE  ChainInv'
BY DEF ChainInv, Intact

LEMMA ChainOfLog ==
    ASSUME TypeInv, OrderInv, ChainInv, NEW a \in Actors,
           ReadLast(a) \/ AppendLine(a) \/ AppendFails(a)
    PROVE  ChainInv'
<1> USE DEF bounds
<1>1. CASE ReadLast(a)
    <2>1. /\ pc[a] = "read" /\ log' = log /\ beside' = beside
          /\ raced' = (raced \/ \E b \in Actors \ {a} : pc[b] = "append")
          /\ seen' = [seen EXCEPT ![a] = LastEntryHash(log)]
          /\ pc' = [pc EXCEPT ![a] = "append"]
        BY <1>1 DEF ReadLast, Goto
    <2>2. ASSUME NEW b \in Actors \ {a}, pc[b] = "append" PROVE beside
        BY <2>1, <2>2, OneAtATime DEF OrderInv
    <2>3. raced' => beside'
        BY <2>1, <2>2 DEF ChainInv
    <2>4. ASSUME ~raced' PROVE Intact'
        <3>1. ~raced /\ \A b \in Actors \ {a} : pc[b] # "append"
            BY <2>1, <2>4
        <3>2. Linked(log)'
            BY <2>1, <3>1 DEF ChainInv, Intact
        <3>3. \A b \in Actors : pc'[b] = "append" => b = a
            BY <2>1, <3>1 DEF TypeInv, TypeOK
        <3>4. seen'[a] = LastEntryHash(log')
            BY <2>1 DEF TypeInv, TypeOK
        <3> QED  BY <3>2, <3>3, <3>4 DEF Intact
    <2> QED  BY <2>3, <2>4 DEF ChainInv
<1>2. CASE AppendLine(a) \/ AppendFails(a)
    <2>1. /\ pc[a] = "append" /\ pc' = [pc EXCEPT ![a] = AfterEntry(a)]
          /\ UNCHANGED <<seen, raced, beside>>
        BY <1>2 DEF AppendLine, AppendFails, Goto
    <2>2. \A b \in Actors : pc'[b] = "append" => pc[b] = "append" /\ b # a
        BY <2>1 DEF AfterEntry, TypeInv, TypeOK
    <2>3. ASSUME ~raced' PROVE Intact'
        <3>1. Intact
            BY <2>1, <2>3 DEF ChainInv
        <3>2. \A b \in Actors : pc'[b] # "append"
            BY <2>1, <2>2, <3>1 DEF Intact
        <3>3. CASE AppendLine(a)
            <4> DEFINE e == Entry(made + 1, seen[a], a, entry[a].cost)
            <4>1. e.prev = LastEntryHash(log)
                BY <2>1, <3>1 DEF Intact, Entry
            <4>2. e \in Whole(Actors)
                BY EntryOfActor
            <4>3. log' = AppendToFile(log, e)
                BY <3>3 DEF AppendLine
            <4> HIDE DEF e
            <4>4. Linked(log')
                BY <3>1, <4>1, <4>2, <4>3, EntryAppended DEF Intact, TypeInv
            <4> QED  BY <3>2, <4>4 DEF Intact
        <3>4. CASE AppendFails(a)
            <4>1. Linked(log')
                BY <3>1, <3>4, TornAppended DEF AppendFails, Intact, TypeInv
            <4> QED  BY <3>2, <4>1 DEF Intact
        <3> QED  BY <1>2, <3>3, <3>4
    <2> QED  BY <2>1, <2>3 DEF ChainInv
<1> QED  BY <1>1, <1>2

LEMMA ChainOfReset ==
    ASSUME TypeInv, ChainInv, NewRequirement \/ Crash
    PROVE  ChainInv'
<1>1. Reset /\ UNCHANGED <<seen, raced>>
    BY DEF NewRequirement, Crash, audit
<1>2. \A a \in Actors : pc'[a] # "append"
    BY <1>1 DEF Reset
<1>3. beside => beside'
    BY <1>1 DEF Reset
<1>4. Linked(log) => Linked(log')
    BY TornAppended DEF NewRequirement, Crash, audit, TypeInv
<1> QED  BY <1>1, <1>2, <1>3, <1>4 DEF ChainInv, Intact

LEMMA ChainStep == TypeInv /\ OrderInv /\ ChainInv /\ [Next]_vars => ChainInv'
<1> SUFFICES ASSUME TypeInv, OrderInv, ChainInv, [Next]_vars PROVE ChainInv'
    OBVIOUS
<1> USE DEF meter, audit, git, bounds
<1>1. CASE UNCHANGED vars
    BY <1>1, ChainKept DEF vars
<1>2. ASSUME NEW a \in Actors, AskModel(a) PROVE ChainInv'
    <2>1. UNCHANGED <<log, raced, seen, beside>>
        BY <1>2 DEF AskModel
    <2>2. \A b \in Actors : pc'[b] = "append" => pc[b] = "append"
        BY <1>2 DEF AskModel, Record, Goto, TypeInv, TypeOK
    <2> QED  BY <2>1, <2>2, ChainKept
<1>3. CASE LeadReturns \/ Join
    BY <1>3, ChainKept DEF LeadReturns, Join
<1>4. ASSUME NEW i \in 1..Len(Order), StartTask(i) PROVE ChainInv'
    <2>1. \A b \in Actors : pc'[b] = "append" => pc[b] = "append"
        BY <1>4 DEF StartTask, Goto, TypeInv, TypeOK
    <2> QED  BY <1>4, <2>1, ChainKept DEF StartTask
<1>5. ASSUME NEW t \in Tasks,
             GraphEnds(t) \/ GraphRaises(t) \/ CreateBranch(t) \/ AddFile(t)
             \/ Commit(t) \/ ReadHead(t) \/ GitFails(t)
      PROVE  ChainInv'
    <2>1. UNCHANGED <<log, raced, seen, beside>>
        BY <1>5 DEF GraphEnds, GraphRaises, CreateBranch, AddFile, Commit,
                    ReadHead, GitFails
    <2>2. \A b \in Actors : pc'[b] = "append" => pc[b] = "append"
        BY <1>5 DEF GraphEnds, GraphRaises, CreateBranch, AddFile, Commit,
                    ReadHead, GitFails, Return, Goto, TypeInv, TypeOK
    <2> QED  BY <2>1, <2>2, ChainKept
<1> QED  BY <1>1, <1>2, <1>3, <1>4, <1>5, ChainOfLog, ChainOfReset DEF Next

\* Without a race every entry of the file names the one before it, torn lines
\* aside, and there is no race without parallel tasks.
THEOREM ChainHolds == Spec => []ChainBreaksOnlyByRace
<1>1. OrderInv /\ ChainInv => ChainBreaksOnlyByRace
    BY DEF ChainInv, Intact, ChainBreaksOnlyByRace
<1> QED  BY <1>1, TypeInit, OrderInit, ChainInit, TypeStep, OrderStep,
            ChainStep, PTL DEF Spec

-----------------------------------------------------------------------------
(* The checkout: without parallel tasks the one in git has its branch.     *)

OwnCommits ==
    \A b \in Branches : \A n \in 1..Len(history[b]) :
        /\ history[b][n].by = b
        /\ history[b][n].files \ {b} \subseteq abandoned

GitInv ==
    ~beside =>
        /\ \A t \in Tasks : pc[t] \in {"add", "commit", "sha"} => head = t
        /\ \A t \in staged \ abandoned : pc[t] = "commit"
        /\ \A t \in Tasks : pc[t] = "sha" => Len(history[t]) # 0
        /\ OwnCommits
        /\ \A t \in Tasks :
              commit[t] # None =>
                  /\ commit[t].branch = t
                  /\ commit[t].number \in 1..Len(history[t])

LEMMA GitInit == Init => GitInv
<1> SUFFICES ASSUME Init PROVE GitInv
    OBVIOUS
<1>1. \A t \in Tasks : pc[t] \in {"work", "idle"} /\ commit[t] = None
    BY DEF Init, Actors
<1>2. \A b \in Branches : history[b] = <<>>
    BY DEF Init
<1>3. OwnCommits
    BY <1>2 DEF OwnCommits
<1> QED  BY <1>1, <1>3 DEF Init, GitInv

\* Steps outside of git.
LEMMA GitKept ==
    ASSUME TypeInv, GitInv, UNCHANGED git, beside => beside',
           \A t \in Tasks :
              /\ pc'[t] \in {"add", "commit", "sha"} => pc'[t] = pc[t]
              /\ pc[t] = "commit" => pc'[t] = "commit"
    PROVE  GitInv'
<1> SUFFICES ASSUME ~beside' PROVE GitInv'
    BY DEF GitInv
<1>1. /\ ~beside
      /\ UNCHANGED <<head, staged, history, commit, abandoned>>
    BY DEF git
<1>2. OwnCommits'
    BY <1>1 DEF OwnCommits, GitInv
<1>3. /\ \A t \in Tasks : pc'[t] \in {"add", "commit", "sha"} => head = t
      /\ \A t \in Tasks : pc'[t] = "sha" => Len(history[t]) # 0
    BY <1>1 DEF GitInv
<1>4. \A t \in staged \ abandoned : pc'[t] = "commit"
    BY <1>1 DEF GitInv, TypeInv, TypeOK
<1>5. \A t \in Tasks :
         commit[t] # None =>
             commit[t].branch = t /\ commit[t].number \in 1..Len(history[t])
    BY <1>1 DEF GitInv
<1> QED  BY <1>1, <1>2, <1>3, <1>4, <1>5 DEF GitInv

LEMMA GitOfOthers ==
    ASSUME TypeInv, GitInv,
           \/ \E a \in Actors :
                 AskModel(a) \/ ReadLast(a) \/ AppendLine(a) \/ AppendFails(a)
           \/ LeadReturns \/ Join
           \/ \E i \in 1..Len(Order) : StartTask(i)
           \/ \E t \in Tasks : GraphEnds(t) \/ GraphRaises(t)
    PROVE  GitInv'
<1> USE DEF bounds
<1>0. Tasks \subseteq Actors
    BY DEF Actors
<1>1. UNCHANGED git /\ beside' = beside
    BY DEF AskModel, ReadLast, AppendLine, AppendFails, LeadReturns, Join,
           StartTask, GraphEnds, GraphRaises
<1>2. ASSUME NEW a \in Actors,
             AskModel(a) \/ ReadLast(a) \/ AppendLine(a) \/ AppendFails(a)
      PROVE  GitInv'
    <2>1. \A b \in Actors \ {a} : pc'[b] = pc[b]
        BY <1>2 DEF AskModel, Record, ReadLast, AppendLine, AppendFails, Goto,
                    TypeInv, TypeOK
    <2>2. /\ pc[a] \in {"work", "read", "append"}
          /\ pc'[a] \in {"work", "read", "append", "done"}
        BY <1>2 DEF AskModel, Record, ReadLast, AppendLine, AppendFails, Goto,
                    AfterEntry, TypeInv, TypeOK
    <2> QED  BY <1>0, <1>1, <2>1, <2>2, GitKept
<1>3. CASE LeadReturns \/ Join
    BY <1>1, <1>3, GitKept DEF LeadReturns, Join
<1>4. ASSUME NEW i \in 1..Len(Order), StartTask(i) PROVE GitInv'
    <2>1. \A t \in Tasks : pc'[t] = pc[t] \/ (pc[t] = "idle" /\ pc'[t] = "work")
        BY <1>0, <1>4 DEF StartTask, Goto, TypeInv, TypeOK
    <2> QED  BY <1>1, <2>1, GitKept
<1>5. ASSUME NEW t \in Tasks, GraphEnds(t) \/ GraphRaises(t) PROVE GitInv'
    <2>1. /\ \A b \in Tasks \ {t} : pc'[b] = pc[b]
          /\ pc[t] = "work" /\ pc'[t] \in {"branch", "read", "done"}
        BY <1>0, <1>5 DEF GraphEnds, GraphRaises, Return, Goto, TypeInv, TypeOK
    <2> QED  BY <1>1, <2>1, GitKept
<1> QED  BY <1>2, <1>3, <1>4, <1>5

LEMMA GitOfReset ==
    ASSUME TypeInv, GitInv, NewRequirement \/ Crash
    PROVE  GitInv'
<1> SUFFICES ASSUME ~beside' PROVE GitInv'
    BY DEF GitInv
<1>1. Reset
    BY DEF NewRequirement, Crash
<1>2. ~beside /\ Tasks \subseteq Actors
    BY <1>1 DEF Reset, Actors
<1>3. \A t \in Tasks : pc'[t] \in {"idle", "work"} /\ commit'[t] = None
    BY <1>1, <1>2 DEF Reset
<1>4. UNCHANGED <<head, staged, history>>
    BY DEF NewRequirement, Crash
<1>5. abandoned \subseteq abandoned' /\ staged \subseteq abandoned'
    <2>1. CASE NewRequirement
        <3>1. \A t \in Tasks : pc[t] # "commit"
            BY <1>2, <2>1 DEF NewRequirement
        <3>2. staged \subseteq Tasks
            BY DEF TypeInv, TypeOK
        <3> QED  BY <1>2, <2>1, <3>1, <3>2 DEF NewRequirement, GitInv
    <2>2. CASE Crash
        BY <2>2 DEF Crash
    <2> QED  BY <2>1, <2>2
<1>6. OwnCommits'
    BY <1>2, <1>4, <1>5 DEF GitInv, OwnCommits
<1> QED  BY <1>3, <1>4, <1>5, <1>6 DEF GitInv

\* The steps of the git node of one task, the only one there.
LEMMA GitOfTask ==
    ASSUME TypeInv, OrderInv, GitInv, NEW t \in Tasks,
           CreateBranch(t) \/ AddFile(t) \/ Commit(t) \/ ReadHead(t)
           \/ GitFails(t)
    PROVE  GitInv'
<1> USE DEF bounds
<1> SUFFICES ASSUME ~beside' PROVE GitInv'
    BY DEF GitInv
<1>1. ~beside /\ ~parallel
    BY DEF CreateBranch, AddFile, Commit, ReadHead, GitFails, OrderInv
<1>2. pc[t] \in InGit /\ Tasks \subseteq Actors /\ t \in Branches
    BY DEF CreateBranch, AddFile, Commit, ReadHead, GitFails, InGit, Actors,
           Branches
<1>3. \A u \in Tasks \ {t} : pc[u] \notin InGit
    BY <1>1, <1>2, OneAtATime
<1>4. \A u \in Tasks \ {t} : pc'[u] = pc[u]
    BY <1>2 DEF CreateBranch, AddFile, Commit, ReadHead, GitFails, Return,
                Goto, TypeInv, TypeOK
<1>5. \A u \in Tasks \ {t} :
         pc'[u] \notin {"add", "commit", "sha"}
    BY <1>3, <1>4 DEF InGit
<1>6. staged \subseteq abandoned \cup {t} /\ staged \subseteq Tasks
    BY <1>1, <1>3 DEF GitInv, InGit, TypeInv, TypeOK
<1>7. CASE CreateBranch(t)
    <2>1. /\ head' = t /\ pc[t] = "branch" /\ pc'[t] = "add"
          /\ UNCHANGED <<staged, history, commit, abandoned>>
        BY <1>2, <1>7 DEF CreateBranch, Goto, TypeInv, TypeOK
    <2>2. staged \subseteq abandoned
        BY <1>1, <1>6, <2>1 DEF GitInv
    <2>3. OwnCommits'
        BY <1>1, <2>1 DEF GitInv, OwnCommits
    <2> QED  BY <1>1, <1>5, <2>1, <2>2, <2>3 DEF GitInv
<1>8. CASE AddFile(t)
    <2>1. /\ staged' \subseteq staged \cup {t}
          /\ pc[t] = "add" /\ pc'[t] = "commit"
          /\ UNCHANGED <<head, history, commit, abandoned>>
        BY <1>2, <1>8 DEF AddFile, Goto, TypeInv, TypeOK
    <2>2. OwnCommits' /\ head' = t
        BY <1>1, <2>1 DEF GitInv, OwnCommits
    <2> QED  BY <1>1, <1>5, <1>6, <2>1, <2>2 DEF GitInv
<1>9. CASE Commit(t)
    <2> DEFINE c == [by |-> t, files |-> staged]
    <2>1. /\ pc[t] = "commit" /\ pc'[t] = "sha" /\ staged' = {}
          /\ history' = [history EXCEPT ![head] = Append(history[head], c)]
          /\ UNCHANGED <<head, commit, abandoned>>
        BY <1>2, <1>9 DEF Commit, Goto, TypeInv, TypeOK
    <2>2. head = t
        BY <1>1, <2>1 DEF GitInv
    <2>3. /\ c.by = t /\ c.files \ {t} \subseteq abandoned
          /\ c \in Commits
        BY <1>6, <2>2 DEF Commits
    <2>4. /\ \A b \in Branches \ {t} : history'[b] = history[b]
          /\ history'[t] = Append(history[t], c)
          /\ history[t] \in Seq(Commits)
        BY <1>2, <2>1, <2>2 DEF TypeInv
    <2> HIDE DEF c
    <2>5. /\ Len(history'[t]) = Len(history[t]) + 1 /\ Len(history[t]) \in Nat
          /\ \A n \in 1..Len(history[t]) : history'[t][n] = history[t][n]
          /\ history'[t][Len(history[t]) + 1] = c
        BY <2>3, <2>4, AppendProperties, LenProperties
    <2>6. OwnCommits'
        <3> SUFFICES ASSUME NEW b \in Branches, NEW n \in 1..Len(history'[b])
                     PROVE  /\ history'[b][n].by = b
                            /\ history'[b][n].files \ {b} \subseteq abandoned
            BY <2>1 DEF OwnCommits
        <3>1. CASE b # t \/ n # Len(history[t]) + 1
            <4>1. n \in 1..Len(history[b]) /\ history'[b][n] = history[b][n]
                BY <2>4, <2>5, <3>1, SMTT(30)
            <4> QED  BY <1>1, <4>1 DEF GitInv, OwnCommits
        <3>2. CASE b = t /\ n = Len(history[t]) + 1
            BY <2>3, <2>5, <3>2
        <3> QED  BY <3>1, <3>2
    <2>7. ASSUME NEW u \in Tasks, commit[u] # None
          PROVE  /\ commit[u].branch = u
                 /\ commit[u].number \in 1..Len(history'[u])
        <3>1. commit[u].branch = u /\ commit[u].number \in 1..Len(history[u])
            BY <1>1, <2>7 DEF GitInv
        <3>2. u \in Branches
            BY DEF Branches
        <3>3. CASE u = t
            BY <2>5, <3>1, <3>3
        <3>4. CASE u # t
            BY <2>4, <3>1, <3>2, <3>4
        <3> QED  BY <3>3, <3>4
    <2> QED  BY <1>5, <2>1, <2>2, <2>5, <2>6, <2>7 DEF GitInv
<1>10. CASE ReadHead(t)
    <2>1. /\ pc[t] = "sha" /\ pc'[t] \in {"read", "done"}
          /\ commit' = [commit EXCEPT ![t] =
                           [branch |-> head, number |-> Len(history[head])]]
          /\ UNCHANGED <<head, staged, history, abandoned>>
        BY <1>2, <1>10 DEF ReadHead, Return, Goto, TypeInv, TypeOK
    <2>2. head = t /\ Len(history[t]) # 0 /\ Len(history[t]) \in Nat
        BY <1>1, <1>2, <2>1, LenProperties DEF GitInv, TypeInv
    <2>3. /\ commit'[t].branch = t /\ commit'[t].number \in 1..Len(history[t])
          /\ \A u \in Tasks \ {t} : commit'[u] = commit[u]
        BY <2>1, <2>2 DEF TypeInv, TypeOK
    <2>4. staged \subseteq abandoned
        BY <1>1, <1>6, <2>1 DEF GitInv
    <2>5. OwnCommits'
        BY <1>1, <2>1 DEF GitInv, OwnCommits
    <2>6. \A u \in Tasks :
             commit'[u] # None =>
                 /\ commit'[u].branch = u
                 /\ commit'[u].number \in 1..Len(history'[u])
        BY <1>1, <2>1, <2>3 DEF GitInv
    <2> QED  BY <1>5, <2>1, <2>4, <2>5, <2>6 DEF GitInv
<1>11. CASE GitFails(t)
    <2>1. /\ pc'[t] \in {"read", "done"} /\ abandoned' = abandoned \cup staged
          /\ UNCHANGED <<head, staged, history, commit>>
        BY <1>2, <1>11 DEF GitFails, Return, Goto, TypeInv, TypeOK
    <2>2. OwnCommits'
        BY <1>1, <2>1 DEF GitInv, OwnCommits
    <2>3. \A u \in Tasks :
             commit'[u] # None =>
                 /\ commit'[u].branch = u
                 /\ commit'[u].number \in 1..Len(history'[u])
        BY <1>1, <2>1 DEF GitInv
    <2> QED  BY <1>5, <2>1, <2>2, <2>3 DEF GitInv
<1> QED  BY <1>7, <1>8, <1>9, <1>10, <1>11

LEMMA GitStep == TypeInv /\ OrderInv /\ GitInv /\ [Next]_vars => GitInv'
<1> SUFFICES ASSUME TypeInv, OrderInv, GitInv, [Next]_vars PROVE GitInv'
    OBVIOUS
<1>1. CASE UNCHANGED vars
    BY <1>1, GitKept DEF vars, bounds
<1>2. CASE Next
    BY <1>2, GitOfOthers, GitOfReset, GitOfTask DEF Next
<1> QED  BY <1>1, <1>2

\* Tasks that run one after the other commit to their own branches what is
\* theirs, or was left by a git node that failed, and report that commit.
THEOREM CommitsAreOwn == Spec => []CommitIsOwn
<1>1. TypeInv /\ GitInv => CommitIsOwn
    <2> SUFFICES ASSUME TypeInv, GitInv, ~beside PROVE CommitIsOwn
        BY DEF CommitIsOwn
    <2>1. ASSUME NEW t \in Tasks, commit[t] # None
          PROVE  commit[t].branch = t /\ history[t][commit[t].number].by = t
        BY <2>1 DEF GitInv, OwnCommits, Branches
    <2> QED  BY <2>1 DEF GitInv, OwnCommits, CommitIsOwn
<1> QED  BY <1>1, TypeInit, OrderInit, GitInit, TypeStep, OrderStep, GitStep,
            PTL DEF Spec

-----------------------------------------------------------------------------
(* Sums of sequences.                                                      *)

IsSums(g, s, m) ==
    \A n \in 0..m : g[n] = IF n = 0 THEN 0 ELSE g[n - 1] + s[n]

\* The first sums of a sequence exist ...
LEMMA SumsExist ==
    ASSUME NEW s \in Seq(Nat), NEW m \in 0..Len(s)
    PROVE  \E g \in [0..m -> Nat] : IsSums(g, s, m)
<1> DEFINE Bad == {k \in 0..Len(s) : ~\E g \in [0..k -> Nat] : IsSums(g, s, k)}
<1>0. SUFFICES ASSUME Bad # {} PROVE FALSE
    <2>1. m \notin Bad => \E g \in [0..m -> Nat] : IsSums(g, s, m)
        OBVIOUS
    <2> QED  BY <2>1
<1>1. PICK k \in Bad : \A j \in Bad : k <= j
    <2>1. Bad \in SUBSET Nat
        OBVIOUS
    <2> HIDE DEF Bad
    <2> QED  BY <1>0, <2>1, LeastExists
<1>2. CASE k = 0
    <2> DEFINE g == [n \in 0..0 |-> 0]
    <2>1. g \in [0..k -> Nat] /\ IsSums(g, s, k)
        BY <1>2 DEF IsSums
    <2> QED  BY <2>1
<1>3. CASE k # 0
    <2>1. k \in 1..Len(s) /\ k - 1 \in 0..Len(s) /\ k - 1 \notin Bad
        <3>1. k \in 0..Len(s) /\ Len(s) \in Nat
            OBVIOUS
        <3>2. k \in 1..Len(s) /\ k - 1 \in 0..Len(s) /\ ~(k <= k - 1)
            BY <1>3, <3>1
        <3> HIDE DEF Bad
        <3> QED  BY <1>1, <3>2
    <2>2. PICK h \in [0..k - 1 -> Nat] : IsSums(h, s, k - 1)
        BY <2>1
    <2> DEFINE g == [n \in 0..k |-> IF n = k THEN h[k - 1] + s[k] ELSE h[n]]
    <2>3. g \in [0..k -> Nat]
        BY <2>1
    <2>4. ASSUME NEW n \in 0..k
          PROVE  g[n] = IF n = 0 THEN 0 ELSE g[n - 1] + s[n]
        <3>1. CASE n = k
            BY <2>1, <3>1
        <3>2. CASE n # k
            BY <2>1, <2>2, <3>2 DEF IsSums
        <3> QED  BY <3>1, <3>2
    <2> QED  BY <2>3, <2>4 DEF IsSums
<1> QED  BY <1>2, <1>3

\* ... and so the recursive definition defines them.
LEMMA SumsAre ==
    ASSUME NEW s \in Seq(Nat)
    PROVE  /\ Sums(s) \in [0..Len(s) -> Nat]
           /\ Sums(s)[0] = 0
           /\ \A n \in 1..Len(s) : Sums(s)[n] = Sums(s)[n - 1] + s[n]
<1> DEFINE Fits(g) ==
        g = [n \in 0..Len(s) |-> IF n = 0 THEN 0 ELSE g[n - 1] + s[n]]
<1>1. PICK g \in [0..Len(s) -> Nat] : IsSums(g, s, Len(s))
    BY SumsExist
<1>2. Fits(g)
    <2>1. \A n \in 0..Len(s) : g[n] = IF n = 0 THEN 0 ELSE g[n - 1] + s[n]
        BY <1>1 DEF IsSums
    <2>2. g = [n \in 0..Len(s) |-> g[n]]
        BY <1>1
    <2> QED  BY <2>1, <2>2
<1>3. Sums(s) = CHOOSE h : Fits(h)
    BY DEF Sums
<1>4. Fits(Sums(s))
    BY <1>2, <1>3
<1>5. Sums(s)[0] = 0 /\ \A n \in 1..Len(s) : Sums(s)[n] = Sums(s)[n - 1] + s[n]
    <2> DEFINE h == Sums(s)
    <2>1. h = [n \in 0..Len(s) |-> IF n = 0 THEN 0 ELSE h[n - 1] + s[n]]
        BY <1>4
    <2> HIDE DEF h
    <2>2. \A n \in 0..Len(s) : h[n] = IF n = 0 THEN 0 ELSE h[n - 1] + s[n]
        BY <2>1
    <2>3. h[0] = 0
        BY <2>2
    <2>4. ASSUME NEW n \in 1..Len(s) PROVE h[n] = h[n - 1] + s[n]
        BY <2>2
    <2> QED  BY <2>3, <2>4 DEF h
<1> DEFINE Bad == {k \in 0..Len(s) : Sums(s)[k] \notin Nat}
<1>6. Bad = {}
    <2> SUFFICES ASSUME Bad # {} PROVE FALSE
        OBVIOUS
    <2>1. PICK k \in Bad : \A j \in Bad : k <= j
        <3>1. Bad \in SUBSET Nat
            OBVIOUS
        <3> HIDE DEF Bad
        <3> QED  BY <3>1, LeastExists
    <2>2. k # 0
        BY <1>5
    <2>3. k \in 1..Len(s) /\ Sums(s)[k - 1] \in Nat
        BY <2>1, <2>2
    <2>4. s[k] \in Nat /\ Sums(s)[k] = Sums(s)[k - 1] + s[k]
        BY <1>5, <2>3
    <2> QED  BY <2>3, <2>4
<1> QED  BY <1>4, <1>5, <1>6

LEMMA SumsStart == ASSUME NEW s \in Seq(Nat) PROVE Sums(s)[0] = 0
BY SumsAre

LEMMA SumsNext ==
    ASSUME NEW s \in Seq(Nat), NEW n \in 1..Len(s)
    PROVE  /\ Sums(s)[n - 1] \in Nat /\ s[n] \in Nat
           /\ Sums(s)[n] = Sums(s)[n - 1] + s[n]
<1>1. n - 1 \in 0..Len(s)
    OBVIOUS
<1>2. Sums(s) \in [0..Len(s) -> Nat]
    BY SumsAre
<1>3. Sums(s)[n] = Sums(s)[n - 1] + s[n]
    BY SumsAre
<1> QED  BY <1>1, <1>2, <1>3

LEMMA SumType == ASSUME NEW s \in Seq(Nat) PROVE SumOf(s) \in Nat
<1>1. Sums(s) \in [0..Len(s) -> Nat]
    BY SumsAre
<1>2. Len(s) \in 0..Len(s)
    OBVIOUS
<1> QED  BY <1>1, <1>2 DEF SumOf

\* Two sequences that agree from j on have sums that differ by what they
\* differ by at j.
LEMMA SumsFollow ==
    ASSUME NEW s \in Seq(Nat), NEW t \in Seq(Nat), NEW k \in Nat,
           k <= Len(s), k <= Len(t), NEW j \in 0..k, NEW d \in Int,
           Sums(t)[j] = Sums(s)[j] + d,
           \A i \in j + 1..k : t[i] = s[i]
    PROVE  Sums(t)[k] = Sums(s)[k] + d
<1> DEFINE Bad == {n \in j..k : Sums(t)[n] # Sums(s)[n] + d}
<1>0. SUFFICES ASSUME Bad # {} PROVE FALSE
    <2>1. k \in j..k
        OBVIOUS
    <2> QED  BY <2>1
<1>1. PICK n \in Bad : \A i \in Bad : n <= i
    <2>1. Bad \in SUBSET Nat
        OBVIOUS
    <2> HIDE DEF Bad
    <2> QED  BY <1>0, <2>1, LeastExists
<1>2. n \in j + 1..k /\ n - 1 \in j..k /\ n - 1 \notin Bad
    BY <1>1
<1>3. Sums(t)[n - 1] = Sums(s)[n - 1] + d
    BY <1>2
<1>4. n \in 1..Len(s) /\ n \in 1..Len(t) /\ t[n] = s[n]
    BY <1>2
<1>5. /\ Sums(s)[n] = Sums(s)[n - 1] + s[n] /\ Sums(s)[n - 1] \in Nat
      /\ s[n] \in Nat
    BY <1>4, SumsNext
<1>6. Sums(t)[n] = Sums(t)[n - 1] + t[n]
    BY <1>4, SumsNext
<1>7. Sums(t)[n] # Sums(s)[n] + d
    BY <1>1
<1> QED  BY <1>3, <1>4, <1>5, <1>6, <1>7, SMTT(30)

LEMMA SumsAgree ==
    ASSUME NEW s \in Seq(Nat), NEW t \in Seq(Nat), NEW k \in Nat,
           k <= Len(s), k <= Len(t), \A i \in 1..k : t[i] = s[i]
    PROVE  Sums(t)[k] = Sums(s)[k]
<1>1. Sums(t)[0] = Sums(s)[0] + 0
    <2>1. Sums(t)[0] = 0 /\ Sums(s)[0] = 0
        BY SumsStart
    <2> QED  BY <2>1
<1>2. 0 \in 0..k /\ 0 \in Int /\ \A i \in 0 + 1..k : t[i] = s[i]
    OBVIOUS
<1>3. Sums(t)[k] = Sums(s)[k] + 0
    BY <1>1, <1>2, SumsFollow
<1>4. Sums(s)[k] \in Nat
    <2>1. k \in 0..Len(s)
        OBVIOUS
    <2> QED  BY <2>1, SumsAre
<1> QED  BY <1>3, <1>4

LEMMA SumAppend ==
    ASSUME NEW s \in Seq(Nat), NEW x \in Nat
    PROVE  SumOf(Append(s, x)) = SumOf(s) + x
<1>0. Append(s, x) \in Seq(Nat)
    OBVIOUS
<1> SUFFICES ASSUME NEW t \in Seq(Nat), t = Append(s, x)
             PROVE  SumOf(t) = SumOf(s) + x
    BY <1>0
<1> DEFINE k == Len(s)
<1>1. /\ Len(t) = k + 1 /\ t[k + 1] = x /\ k \in Nat
      /\ \A i \in 1..k : t[i] = s[i]
    OBVIOUS
<1>2. Sums(t)[k] = Sums(s)[k]
    <2>1. k <= Len(s) /\ k <= Len(t)
        BY <1>1
    <2> HIDE DEF k
    <2> QED  BY <1>1, <2>1, SumsAgree
<1>3. Sums(t)[k + 1] = Sums(t)[k] + x
    <2>1. k + 1 \in 1..Len(t) /\ (k + 1) - 1 = k
        BY <1>1
    <2> QED  BY <1>1, <2>1, SumsNext
<1> QED  BY <1>1, <1>2, <1>3 DEF SumOf

\* One number of a sequence is replaced.
LEMMA SumReplace ==
    ASSUME NEW s \in Seq(Nat), NEW t \in Seq(Nat), Len(s) = Len(t),
           NEW i \in 1..Len(s), \A j \in 1..Len(s) \ {i} : t[j] = s[j]
    PROVE  SumOf(t) + s[i] = SumOf(s) + t[i]
<1> DEFINE k == i - 1
<1>1. /\ k \in Nat /\ k <= Len(s) /\ k <= Len(t) /\ Len(s) \in Nat
      /\ s[i] \in Nat /\ t[i] \in Nat
    OBVIOUS
<1>2. Sums(t)[k] = Sums(s)[k]
    <2>1. ASSUME NEW j \in 1..k PROVE t[j] = s[j]
        <3>1. j \in 1..Len(s) /\ j # i
            BY <1>1
        <3> QED  BY <3>1
    <2> QED  BY <1>1, <2>1, SumsAgree
<1>3. Sums(s)[i] = Sums(s)[k] + s[i] /\ Sums(s)[k] \in Nat
    BY SumsNext
<1>4. Sums(t)[i] = Sums(t)[k] + t[i]
    BY SumsNext
<1>5. Sums(t)[i] = Sums(s)[i] + (t[i] - s[i])
    BY <1>1, <1>2, <1>3, <1>4
<1>6. Sums(t)[Len(s)] = Sums(s)[Len(s)] + (t[i] - s[i])
    <2>1. /\ i \in 0..Len(s) /\ t[i] - s[i] \in Int
          /\ Len(s) <= Len(s) /\ Len(s) <= Len(t)
        BY <1>1
    <2>2. ASSUME NEW j \in i + 1..Len(s) PROVE t[j] = s[j]
        <3>1. j \in 1..Len(s) /\ j # i
            BY <1>1
        <3> QED  BY <3>1
    <2> QED  BY <1>1, <1>5, <2>1, <2>2, SumsFollow
<1>7. SumOf(s) \in Nat
    BY SumType
<1> QED  BY <1>1, <1>6, <1>7 DEF SumOf

\* The sum of nothing but zeros.
LEMMA SumOfZeros ==
    ASSUME NEW s \in Seq(Nat), \A i \in 1..Len(s) : s[i] = 0
    PROVE  SumOf(s) = 0
<1> DEFINE Bad == {n \in 0..Len(s) : Sums(s)[n] # 0}
<1>1. Bad = {}
    <2> SUFFICES ASSUME Bad # {} PROVE FALSE
        OBVIOUS
    <2>1. PICK n \in Bad : \A i \in Bad : n <= i
        <3>1. Bad \in SUBSET Nat
            OBVIOUS
        <3> HIDE DEF Bad
        <3> QED  BY <3>1, LeastExists
    <2>2. n # 0
        BY <2>1, SumsStart
    <2>3. n \in 1..Len(s) /\ n - 1 \in 0..Len(s) /\ n - 1 \notin Bad
        BY <2>1, <2>2
    <2>4. Sums(s)[n] = Sums(s)[n - 1] + s[n] /\ s[n] = 0
        BY <2>3, SumsNext
    <2> QED  BY <2>1, <2>3, <2>4
<1> QED  BY <1>1 DEF SumOf

-----------------------------------------------------------------------------
(* The ledger: what was spent is logged, under way, or lost.  An actor has  *)
(* something to log only while it is in the log.                           *)

LedgerInv ==
    /\ LedgerAgrees
    /\ base <= Len(log)
    /\ \A a \in Actors : pc[a] \notin {"read", "append"} => entry[a].cost = 0

\* The costs of the lines after the first b, and of the entries of the tasks.
LineCosts(lines, b) == [i \in 1..Len(lines) - b |-> CostOf(lines[b + i])]
LoggedIn(lines, b) == SumOf(LineCosts(lines, b))
EntryCosts(e) == [i \in 1..Len(Order) |-> e[Order[i]].cost]

LEMMA CostType ==
    ASSUME NEW by, NEW line \in Lines(by)
    PROVE  CostOf(line) \in Nat
<1>1. CASE line \in Whole(by)
    BY <1>1 DEF Whole, CostOf
<1>2. CASE line = Torn(TRUE) \/ line = Torn(FALSE)
    BY <1>2 DEF Torn, CostOf
<1> QED  BY <1>1, <1>2 DEF Lines

LEMMA LineCostsType ==
    ASSUME NEW l \in Seq(Lines(Actors)), NEW b \in Nat, b <= Len(l)
    PROVE  /\ LineCosts(l, b) \in Seq(Nat)
           /\ Len(LineCosts(l, b)) = Len(l) - b
           /\ \A i \in 1..Len(l) - b : LineCosts(l, b)[i] = CostOf(l[b + i])
           /\ LoggedIn(l, b) \in Nat
<1>1. Len(l) - b \in Nat
    OBVIOUS
<1>2. ASSUME NEW i \in 1..Len(l) - b PROVE CostOf(l[b + i]) \in Nat
    <2>1. b + i \in 1..Len(l)
        OBVIOUS
    <2>2. l[b + i] \in Lines(Actors)
        BY <2>1
    <2> QED  BY <2>2, CostType
<1>3. LineCosts(l, b) \in Seq(Nat) /\ Len(LineCosts(l, b)) = Len(l) - b
    BY <1>1, <1>2 DEF LineCosts
<1>4. LoggedIn(l, b) \in Nat
    BY <1>3, SumType DEF LoggedIn
<1> QED  BY <1>3, <1>4 DEF LineCosts, LoggedIn

\* Before the first line.
LEMMA NoLines ==
    ASSUME NEW l \in Seq(Lines(Actors)), NEW b \in Nat, b <= Len(l),
           Len(l) - b = 0
    PROVE  LoggedIn(l, b) = 0
<1>1. LineCosts(l, b) \in Seq(Nat) /\ Len(LineCosts(l, b)) = 0
    BY LineCostsType
<1>2. \A i \in 1..Len(LineCosts(l, b)) : LineCosts(l, b)[i] = 0
    BY <1>1
<1> QED  BY <1>1, <1>2, SumOfZeros DEF LoggedIn

\* A line more.
LEMMA LineAppended ==
    ASSUME NEW l \in Seq(Lines(Actors)), NEW b \in Nat, b <= Len(l),
           NEW line \in Lines(Actors)
    PROVE  /\ LoggedIn(Append(l, line), b) =
                  LoggedIn(l, b) + CostOf(line)
           /\ b <= Len(Append(l, line))
<1>0. Append(l, line) \in Seq(Lines(Actors))
    OBVIOUS
<1> SUFFICES ASSUME NEW m \in Seq(Lines(Actors)), m = Append(l, line)
             PROVE  /\ LoggedIn(m, b) =
                           LoggedIn(l, b) + CostOf(line)
                    /\ b <= Len(m)
    BY <1>0
<1> DEFINE s == LineCosts(l, b)
           t == LineCosts(m, b)
           n == Len(l) - b
<1>1. /\ Len(m) = Len(l) + 1 /\ m[Len(l) + 1] = line
      /\ \A i \in 1..Len(l) : m[i] = l[i]
      /\ Len(l) \in Nat
    OBVIOUS
<1>2. /\ s \in Seq(Nat) /\ Len(s) = n
      /\ \A i \in 1..n : s[i] = CostOf(l[b + i])
    BY LineCostsType
<1>3. /\ t \in Seq(Nat) /\ Len(t) = Len(m) - b
      /\ \A i \in 1..Len(m) - b : t[i] = CostOf(m[b + i])
    <2>1. b <= Len(m)
        BY <1>1
    <2> QED  BY <2>1, LineCostsType
<1>4. CostOf(line) \in Nat
    BY CostType
<1>5. Append(s, CostOf(line)) \in Seq(Nat)
      /\ Len(Append(s, CostOf(line))) = n + 1
      /\ \A i \in 1..n : Append(s, CostOf(line))[i] = s[i]
      /\ Append(s, CostOf(line))[n + 1] = CostOf(line)
    <2> HIDE DEF s
    <2> QED  BY <1>2, <1>4
<1>6. n \in Nat /\ Len(t) = n + 1
    BY <1>1, <1>3
<1>7. ASSUME NEW i \in 1..n + 1 PROVE t[i] = Append(s, CostOf(line))[i]
    <2>1. t[i] = CostOf(m[b + i])
        BY <1>1, <1>3
    <2>2. CASE i = n + 1
        <3>1. b + i = Len(l) + 1
            BY <1>1, <2>2
        <3> QED  BY <1>1, <1>5, <2>1, <2>2, <3>1
    <2>3. CASE i # n + 1
        <3>1. i \in 1..n /\ b + i \in 1..Len(l)
            BY <1>1, <1>6, <2>3
        <3>2. m[b + i] = l[b + i]
            BY <1>1, <3>1
        <3> HIDE DEF s, t
        <3> QED  BY <1>2, <1>5, <2>1, <3>1, <3>2
    <2> QED  BY <2>2, <2>3
<1>8. t = Append(s, CostOf(line))
    <2> HIDE DEF s, t, n
    <2> QED  BY <1>3, <1>5, <1>6, <1>7, SeqEqual
<1>9. SumOf(t) = SumOf(s) + CostOf(line)
    <2> HIDE DEF s, t
    <2> QED  BY <1>2, <1>4, <1>8, SumAppend
<1> QED  BY <1>1, <1>9 DEF LoggedIn

\* The rest of a torn write gets its line end.
LEMMA LineClosed ==
    ASSUME NEW l \in Seq(Lines(Actors)), NEW b \in Nat, b <= Len(l), IsOpen(l)
    PROVE  /\ LoggedIn([l EXCEPT ![Len(l)] = Torn(TRUE)], b) =
                  LoggedIn(l, b)
           /\ b <= Len([l EXCEPT ![Len(l)] = Torn(TRUE)])
<1> DEFINE m == [l EXCEPT ![Len(l)] = Torn(TRUE)]
<1>0. l \in [1..Len(l) -> Lines(Actors)] /\ Len(l) \in Nat
    OBVIOUS
<1>1. Len(m) = Len(l)
    OBVIOUS
<1>2. ASSUME NEW i \in 1..Len(l) PROVE CostOf(m[i]) = CostOf(l[i])
    <2>1. CASE i = Len(l)
        <3>1. ~l[i].readable
            BY <2>1 DEF IsOpen
        <3>2. m[i] = Torn(TRUE)
            BY <1>0, <2>1
        <3> HIDE DEF m
        <3> QED  BY <3>1, <3>2 DEF CostOf, Torn
    <2>2. CASE i # Len(l)
        <3>1. m[i] = l[i]
            BY <1>0, <2>2
        <3> HIDE DEF m
        <3> QED  BY <3>1
    <2> QED  BY <2>1, <2>2
<1>3. LineCosts(m, b) = LineCosts(l, b)
    <2>1. \A i \in 1..Len(l) - b : b + i \in 1..Len(l)
        OBVIOUS
    <2> HIDE DEF m
    <2>2. \A i \in 1..Len(l) - b : CostOf(m[b + i]) = CostOf(l[b + i])
        BY <1>2, <2>1
    <2> QED  BY <1>1, <2>2 DEF LineCosts
<1> QED  BY <1>1, <1>3 DEF LoggedIn

LEMMA LineTorn ==
    ASSUME NEW l \in Seq(Lines(Actors)), NEW b \in Nat, b <= Len(l)
    PROVE  /\ LoggedIn(AppendTorn(l), b) = LoggedIn(l, b)
           /\ b <= Len(AppendTorn(l))
<1> DEFINE line == Torn(FALSE)
<1>1. line \in Lines(Actors) /\ CostOf(line) = 0
    BY DEF Lines, Torn, CostOf
<1>2. AppendTorn(l) \in {l, Append(l, line)}
    BY DEF AppendTorn
<1> HIDE DEF line
<1>3. /\ LoggedIn(Append(l, line), b) = LoggedIn(l, b) + CostOf(line)
      /\ b <= Len(Append(l, line))
    BY <1>1, LineAppended
<1>4. LoggedIn(l, b) + CostOf(line) = LoggedIn(l, b)
    BY <1>1, LineCostsType
<1> QED  BY <1>2, <1>3, <1>4

EntrySet == [Actors -> [kind : {"none", "llm_cost", "workflow"}, cost : Nat]]
AllCosts(e) == e[Lead].cost + SumOf(EntryCosts(e))

LEMMA EntryCostsType ==
    ASSUME NEW e \in EntrySet
    PROVE  /\ EntryCosts(e) \in Seq(Nat) /\ Len(EntryCosts(e)) = Len(Order)
           /\ \A i \in 1..Len(Order) : EntryCosts(e)[i] = e[Order[i]].cost
           /\ e[Lead].cost \in Nat /\ SumOf(EntryCosts(e)) \in Nat
           /\ AllCosts(e) \in Nat
<1>1. Len(Order) \in Nat /\ \A i \in 1..Len(Order) : Order[i] \in Actors
    BY OrganisationAssumption DEF Actors
<1>2. \A a \in Actors : e[a].cost \in Nat
    BY DEF EntrySet
<1>3. e[Lead].cost \in Nat
    BY <1>2 DEF Actors
<1>4. EntryCosts(e) \in Seq(Nat) /\ Len(EntryCosts(e)) = Len(Order)
    BY <1>1, <1>2 DEF EntryCosts
<1>5. SumOf(EntryCosts(e)) \in Nat
    BY <1>4, SumType
<1> QED  BY <1>3, <1>4, <1>5 DEF EntryCosts, AllCosts

\* One actor's entry is another one.
LEMMA CostsChange ==
    ASSUME NEW e \in EntrySet, NEW f \in EntrySet, NEW a \in Actors,
           \A c \in Actors \ {a} : f[c] = e[c]
    PROVE  AllCosts(f) + e[a].cost = AllCosts(e) + f[a].cost
<1> DEFINE s == EntryCosts(e)
           t == EntryCosts(f)
<1>1. /\ s \in Seq(Nat) /\ Len(s) = Len(Order) /\ e[Lead].cost \in Nat
      /\ SumOf(s) \in Nat /\ AllCosts(e) = e[Lead].cost + SumOf(s)
      /\ \A i \in 1..Len(Order) : s[i] = e[Order[i]].cost
    BY EntryCostsType DEF AllCosts
<1>2. /\ t \in Seq(Nat) /\ Len(t) = Len(Order) /\ f[Lead].cost \in Nat
      /\ SumOf(t) \in Nat /\ AllCosts(f) = f[Lead].cost + SumOf(t)
      /\ \A i \in 1..Len(Order) : t[i] = f[Order[i]].cost
    BY EntryCostsType DEF AllCosts
<1>3. /\ Len(Order) \in Nat /\ \A i \in 1..Len(Order) : Order[i] \in Tasks
      /\ \A i, j \in 1..Len(Order) : Order[i] = Order[j] => i = j
    <2>1. DOMAIN Order = 1..Len(Order)
        BY OrganisationAssumption
    <2> QED  BY <2>1, OrganisationAssumption DEF IsInjective
<1> HIDE DEF s, t
<1>4. CASE a = Lead
    <2>1. \A i \in 1..Len(Order) : Order[i] \in Actors \ {a}
        BY <1>3, <1>4, OrganisationAssumption DEF Actors
    <2>2. \A i \in 1..Len(Order) : t[i] = s[i]
        BY <1>1, <1>2, <2>1
    <2>3. s = t
        BY <1>1, <1>2, <2>2, SeqEqual
    <2> QED  BY <1>1, <1>2, <1>4, <2>3
<1>5. CASE a \in Tasks
    <2>1. PICK i \in 1..Len(Order) : Order[i] = a
        BY <1>5, OrganisationAssumption
    <2>2. ASSUME NEW j \in 1..Len(Order), j # i PROVE Order[j] \in Actors \ {a}
        BY <1>3, <2>1, <2>2 DEF Actors
    <2>3. \A j \in 1..Len(s) \ {i} : t[j] = s[j]
        BY <1>1, <1>2, <2>2
    <2>4. SumOf(t) + s[i] = SumOf(s) + t[i]
        BY <1>1, <1>2, <2>1, <2>3, SumReplace
    <2>5. s[i] = e[a].cost /\ t[i] = f[a].cost
        BY <1>1, <1>2, <2>1
    <2>6. f[Lead] = e[Lead]
        BY <1>5, OrganisationAssumption DEF Actors
    <2>7. s[i] \in Nat /\ t[i] \in Nat
        BY <1>1, <1>2, SMTT(30)
    <2>8. f[Lead].cost = e[Lead].cost
        BY <2>6
    <2>9. SumOf(t) + e[a].cost = SumOf(s) + f[a].cost
        BY <2>4, <2>5
    <2>10. e[a].cost \in Nat /\ f[a].cost \in Nat
        BY <2>5, <2>7
    <2>11. AllCosts(f) + e[a].cost =
              f[Lead].cost + (SumOf(t) + e[a].cost)
        BY <1>2, <2>10
    <2>12. AllCosts(e) + f[a].cost =
              e[Lead].cost + (SumOf(s) + f[a].cost)
        BY <1>1, <2>10
    <2> QED  BY <2>8, <2>9, <2>11, <2>12
<1> QED  BY <1>4, <1>5 DEF Actors

LEMMA NoCosts ==
    ASSUME NEW e \in EntrySet, \A a \in Actors : e[a].cost = 0
    PROVE  AllCosts(e) = 0
<1>1. \A i \in 1..Len(Order) : Order[i] \in Actors
    BY OrganisationAssumption DEF Actors
<1>2. /\ EntryCosts(e) \in Seq(Nat) /\ Len(EntryCosts(e)) = Len(Order)
      /\ \A i \in 1..Len(Order) : EntryCosts(e)[i] = e[Order[i]].cost
    BY EntryCostsType
<1>3. \A i \in 1..Len(EntryCosts(e)) : EntryCosts(e)[i] = 0
    BY <1>1, <1>2
<1>4. SumOf(EntryCosts(e)) = 0
    BY <1>2, <1>3, SumOfZeros
<1>5. e[Lead].cost = 0
    BY DEF Actors
<1> QED  BY <1>4, <1>5 DEF AllCosts

\* The ledger of the state and of the next one.
LEMMA LedgerNow ==
    ASSUME TypeInv
    PROVE  /\ LedgerAgrees <=> spent = LoggedIn(log, base) + AllCosts(entry)
                                        + unlogged
           /\ entry \in EntrySet /\ AllCosts(entry) \in Nat
           /\ log \in Seq(Lines(Actors)) /\ base \in Nat
           /\ spent \in Nat /\ unlogged \in Nat
<1>1. entry \in EntrySet /\ log \in Seq(Lines(Actors)) /\ base \in Nat
      /\ unlogged \in Nat /\ spent \in 0..Budget
    BY DEF TypeInv, TypeOK, EntrySet
<1>2. spent \in Nat
    BY <1>1, OrganisationAssumption
<1>3. AllCosts(entry) \in Nat
    BY <1>1, EntryCostsType
<1>4. LedgerAgrees <=> spent = LoggedIn(log, base) + AllCosts(entry) + unlogged
    BY DEF LedgerAgrees, Logged, LoggedIn, LineCosts, UnderWay, AllCosts,
           EntryCosts
<1> QED  BY <1>1, <1>2, <1>3, <1>4

LEMMA LedgerNext ==
    ASSUME TypeInv'
    PROVE  /\ LedgerAgrees' <=> spent' = LoggedIn(log', base')
                                          + AllCosts(entry') + unlogged'
           /\ entry' \in EntrySet /\ AllCosts(entry') \in Nat
           /\ log' \in Seq(Lines(Actors)) /\ base' \in Nat
<1>1. entry' \in EntrySet /\ log' \in Seq(Lines(Actors)) /\ base' \in Nat
    BY DEF TypeInv, TypeOK, EntrySet
<1>2. AllCosts(entry') \in Nat
    BY <1>1, EntryCostsType
<1>3. LedgerAgrees' <=> spent' = LoggedIn(log', base') + AllCosts(entry')
                                  + unlogged'
    BY DEF LedgerAgrees, Logged, LoggedIn, LineCosts, UnderWay, AllCosts,
           EntryCosts
<1> QED  BY <1>1, <1>2, <1>3

LEMMA UnderWayChange ==
    ASSUME TypeInv, TypeInv', NEW a \in Actors,
           NEW e, entry' = [entry EXCEPT ![a] = e]
    PROVE  /\ AllCosts(entry) \in Nat /\ AllCosts(entry') \in Nat
           /\ AllCosts(entry') + entry[a].cost = AllCosts(entry) + e.cost
<1>1. entry \in EntrySet /\ AllCosts(entry) \in Nat
    BY LedgerNow
<1>2. entry' \in EntrySet /\ AllCosts(entry') \in Nat
    BY LedgerNext
<1>3. entry'[a] = e /\ \A c \in Actors \ {a} : entry'[c] = entry[c]
    BY <1>1 DEF EntrySet
<1>4. AllCosts(entry') + entry[a].cost = AllCosts(entry) + entry'[a].cost
    BY <1>1, <1>2, <1>3, CostsChange
<1> QED  BY <1>1, <1>2, <1>3, <1>4

\* The numbers of the ledger are numbers.
LEMMA LedgerTypes ==
    ASSUME TypeInv, LedgerInv
    PROVE  /\ LoggedIn(log, base) \in Nat /\ AllCosts(entry) \in Nat
           /\ unlogged \in Nat /\ spent \in Nat /\ base <= Len(log)
           /\ spent = LoggedIn(log, base) + AllCosts(entry) + unlogged
<1>1. LoggedIn(log, base) \in Nat
    BY LedgerNow, LineCostsType DEF LedgerInv, LoggedIn
<1> QED  BY <1>1, LedgerNow DEF LedgerInv

\* A step that leaves the tracker, the log and the entries alone, and takes
\* nobody out of the log.
LEMMA LedgerKept ==
    ASSUME LedgerInv, UNCHANGED <<spent, unlogged, log, base, entry>>,
           \A a \in Actors : pc[a] \in {"read", "append"} =>
                                pc'[a] \in {"read", "append"}
    PROVE  LedgerInv'
<1>1. UNCHANGED <<Logged, UnderWay>>
    BY DEF Logged, UnderWay
<1> QED  BY <1>1 DEF LedgerInv, LedgerAgrees

LEMMA LedgerOfCalls ==
    ASSUME TypeInv, TypeInv', LedgerInv, NEW a \in Actors, AskModel(a)
    PROVE  LedgerInv'
<1>1. UNCHANGED <<unlogged, log, base>> /\ pc[a] = "work"
    BY DEF AskModel, audit, bounds
<1>2. CASE UNCHANGED <<spent, entry, pc>>
    BY <1>1, <1>2, LedgerKept
<1>3. CASE \E cost \in Costs :
              /\ spent' = spent + cost
              /\ entry' = [entry EXCEPT ![a] = [kind |-> "llm_cost",
                                                cost |-> cost]]
              /\ Goto(a, "read")
    <2> PICK cost \in Costs :
              /\ spent' = spent + cost
              /\ entry' = [entry EXCEPT ![a] = [kind |-> "llm_cost",
                                                cost |-> cost]]
              /\ Goto(a, "read")
        BY <1>3
    <2>1. entry[a].cost = 0 /\ cost \in Nat
        BY <1>1, OrganisationAssumption DEF LedgerInv
    <2>2. AllCosts(entry') = AllCosts(entry) + cost
        <3> DEFINE e == [kind |-> "llm_cost", cost |-> cost]
        <3>1. entry' = [entry EXCEPT ![a] = e] /\ e.cost = cost
            OBVIOUS
        <3> HIDE DEF e
        <3>2. /\ AllCosts(entry) \in Nat /\ AllCosts(entry') \in Nat
              /\ AllCosts(entry') + entry[a].cost = AllCosts(entry) + e.cost
            BY <3>1, UnderWayChange
        <3> QED  BY <2>1, <3>1, <3>2
    <2>3. LoggedIn(log', base') = LoggedIn(log, base)
        BY <1>1
    <2>4. LedgerAgrees'
        <3>1. spent' = LoggedIn(log', base') + AllCosts(entry') + unlogged'
            BY <1>1, <2>1, <2>2, <2>3, LedgerTypes
        <3> QED  BY <3>1, LedgerNext
    <2>5. \A b \in Actors :
             pc'[b] \notin {"read", "append"} => entry'[b].cost = 0
        BY DEF Goto, LedgerInv, TypeInv, TypeOK
    <2> QED  BY <1>1, <2>4, <2>5 DEF LedgerInv
<1> QED  BY <1>2, <1>3 DEF AskModel, Record

LEMMA LedgerOfLog ==
    ASSUME TypeInv, TypeInv', LedgerInv, NEW a \in Actors,
           ReadLast(a) \/ AppendLine(a) \/ AppendFails(a)
    PROVE  LedgerInv'
<1>1. CASE ReadLast(a)
    BY <1>1, LedgerKept
    DEF ReadLast, Goto, meter, bounds, TypeInv, TypeOK
<1>2. CASE AppendLine(a) \/ AppendFails(a)
    <2>1. /\ entry' = [entry EXCEPT ![a] = Nothing]
          /\ UNCHANGED <<spent, base>> /\ pc[a] = "append"
          /\ Goto(a, AfterEntry(a))
        BY <1>2 DEF AppendLine, AppendFails, bounds
    <2>2. /\ AllCosts(entry') + entry[a].cost = AllCosts(entry)
          /\ AllCosts(entry') \in Nat
        <3>1. Nothing.cost = 0
            BY DEF Nothing
        <3>2. /\ AllCosts(entry) \in Nat /\ AllCosts(entry') \in Nat
              /\ AllCosts(entry') + entry[a].cost =
                    AllCosts(entry) + Nothing.cost
            BY <2>1, UnderWayChange
        <3> QED  BY <3>1, <3>2
    <2>3. entry[a].cost \in Nat
        BY DEF TypeInv, TypeOK
    <2>4. /\ base' <= Len(log')
          /\ \/ /\ LoggedIn(log', base') = LoggedIn(log, base)
                /\ unlogged' = unlogged + entry[a].cost
             \/ /\ LoggedIn(log', base') = LoggedIn(log, base) + entry[a].cost
                /\ unlogged' = unlogged
        <3>0. LoggedIn(log, base) \in Nat /\ unlogged \in Nat
            BY LedgerTypes
        <3>1. /\ log \in Seq(Lines(Actors)) /\ base \in Nat
              /\ base <= Len(log) /\ base' = base
            BY <2>1, LedgerNow DEF LedgerInv
        <3>2. CASE AppendFails(a)
            <4>1. log' \in {log, AppendTorn(log)}
                  /\ unlogged' = unlogged + entry[a].cost
                BY <3>2 DEF AppendFails
            <4>2. CASE log' = log
                BY <3>1, <4>1, <4>2
            <4>3. CASE log' = AppendTorn(log)
                BY <3>1, <4>1, <4>3, LineTorn
            <4> QED  BY <4>1, <4>2, <4>3
        <3>3. CASE AppendLine(a) /\ IsOpen(log)
            <4>1. /\ log' = [log EXCEPT ![Len(log)] = Torn(TRUE)]
                  /\ unlogged' = unlogged + entry[a].cost
                BY <3>3 DEF AppendLine, AppendToFile
            <4>2. /\ LoggedIn(log', base) = LoggedIn(log, base)
                  /\ base <= Len(log')
                BY <3>1, <3>3, <4>1, LineClosed
            <4> QED  BY <3>1, <4>1, <4>2
        <3>4. CASE AppendLine(a) /\ ~IsOpen(log)
            <4> DEFINE line == Entry(made + 1, seen[a], a, entry[a].cost)
            <4>1. line \in Lines(Actors)
                BY EntryOfActor DEF Lines
            <4>2. CostOf(line) = entry[a].cost
                BY DEF CostOf, Entry
            <4>3. log' = Append(log, line) /\ unlogged' = unlogged + 0
                BY <3>4 DEF AppendLine, AppendToFile
            <4> HIDE DEF line
            <4>4. /\ LoggedIn(log', base) =
                        LoggedIn(log, base) + CostOf(line)
                  /\ base <= Len(log')
                BY <3>1, <4>1, <4>3, LineAppended
            <4> QED  BY <3>0, <3>1, <4>2, <4>3, <4>4
        <3> QED  BY <1>2, <3>2, <3>3, <3>4
    <2>5. LedgerAgrees'
        <3>1. /\ LoggedIn(log, base) \in Nat /\ AllCosts(entry) \in Nat
              /\ unlogged \in Nat
              /\ spent' = LoggedIn(log, base) + AllCosts(entry) + unlogged
            BY <2>1, LedgerTypes
        <3>2. spent' = LoggedIn(log', base') + AllCosts(entry') + unlogged'
            <4>1. CASE /\ LoggedIn(log', base') = LoggedIn(log, base)
                       /\ unlogged' = unlogged + entry[a].cost
                BY <2>2, <2>3, <3>1, <4>1
            <4>2. CASE /\ LoggedIn(log', base') =
                             LoggedIn(log, base) + entry[a].cost
                       /\ unlogged' = unlogged
                BY <2>2, <2>3, <3>1, <4>2
            <4> QED  BY <2>4, <4>1, <4>2
        <3> QED  BY <3>2, LedgerNext
    <2>6. \A b \in Actors :
             pc'[b] \notin {"read", "append"} => entry'[b].cost = 0
        BY <2>1 DEF Goto, Nothing, LedgerInv, TypeInv, TypeOK
    <2> QED  BY <2>4, <2>5, <2>6 DEF LedgerInv
<1> QED  BY <1>1, <1>2

LEMMA LedgerOfReset ==
    ASSUME TypeInv, TypeInv', LedgerInv, NewRequirement \/ Crash
    PROVE  LedgerInv'
<1>1. \A a \in Actors : entry'[a].cost = 0
    BY DEF NewRequirement, Crash, Reset, Nothing
<1>2. AllCosts(entry') = 0
    BY <1>1, LedgerNext, NoCosts
<1>3. CASE NewRequirement
    <2>0. \A a \in Actors : entry[a].cost = 0
        BY <1>3 DEF NewRequirement, LedgerInv
    <2>1. AllCosts(entry) = 0
        BY <2>0, LedgerNow, NoCosts
    <2>2. UNCHANGED <<spent, unlogged, log, base>>
        BY <1>3 DEF NewRequirement, audit
    <2>3. LoggedIn(log', base') = LoggedIn(log, base)
        BY <2>2
    <2>4. spent' = LoggedIn(log', base') + AllCosts(entry') + unlogged'
        BY <1>2, <2>1, <2>2, <2>3, LedgerTypes
    <2> QED  BY <1>1, <2>2, <2>4, LedgerNext DEF LedgerInv
<1>4. CASE Crash
    <2>1. spent' = 0 /\ unlogged' = 0 /\ base' = Len(log')
        BY <1>4 DEF Crash
    <2>2. /\ log' \in Seq(Lines(Actors)) /\ base' \in Nat
        BY LedgerNext
    <2>3. base' <= Len(log') /\ Len(log') - base' = 0
        BY <2>1, <2>2
    <2>4. LoggedIn(log', base') = 0
        BY <2>2, <2>3, NoLines
    <2>5. spent' = LoggedIn(log', base') + AllCosts(entry') + unlogged'
        BY <1>2, <2>1, <2>4
    <2> QED  BY <1>1, <2>3, <2>5, LedgerNext DEF LedgerInv
<1> QED  BY <1>3, <1>4

LEMMA LedgerOfTasks ==
    ASSUME TypeInv, TypeInv', LedgerInv, NEW t \in Tasks,
           GraphEnds(t) \/ GraphRaises(t) \/ CreateBranch(t) \/ AddFile(t)
           \/ Commit(t) \/ ReadHead(t) \/ GitFails(t)
    PROVE  LedgerInv'
<1>0. t \in Actors /\ pc[t] \notin {"read", "append"}
    BY DEF Actors, GraphEnds, GraphRaises, CreateBranch, AddFile, Commit,
           ReadHead, GitFails, InGit
<1>1. UNCHANGED <<spent, unlogged, log, base>>
    BY DEF GraphEnds, GraphRaises, CreateBranch, AddFile, Commit, ReadHead,
           GitFails, meter, audit, bounds
<1>2. \/ UNCHANGED entry /\ \E place : Goto(t, place)
      \/ /\ entry' = [entry EXCEPT ![t] = [kind |-> "workflow", cost |-> 0]]
         /\ Goto(t, "read")
    BY DEF GraphEnds, GraphRaises, CreateBranch, AddFile, Commit, ReadHead,
           GitFails, Return, meter
<1>3. CASE UNCHANGED entry /\ \E place : Goto(t, place)
    BY <1>0, <1>1, <1>3, LedgerKept DEF Goto, TypeInv, TypeOK
<1>4. CASE /\ entry' = [entry EXCEPT ![t] = [kind |-> "workflow", cost |-> 0]]
           /\ Goto(t, "read")
    <2>1. entry[t].cost = 0
        BY <1>0 DEF LedgerInv
    <2>2. AllCosts(entry') = AllCosts(entry)
        <3> DEFINE e == [kind |-> "workflow", cost |-> 0]
        <3>1. entry' = [entry EXCEPT ![t] = e] /\ e.cost = 0
            BY <1>4
        <3> HIDE DEF e
        <3>2. /\ AllCosts(entry) \in Nat /\ AllCosts(entry') \in Nat
              /\ AllCosts(entry') + entry[t].cost = AllCosts(entry) + e.cost
            BY <1>0, <3>1, UnderWayChange
        <3> QED  BY <2>1, <3>1, <3>2
    <2>3. LoggedIn(log', base') = LoggedIn(log, base)
        BY <1>1
    <2>4. LedgerAgrees'
        <3>1. spent' = LoggedIn(log', base') + AllCosts(entry') + unlogged'
            BY <1>1, <2>2, <2>3, LedgerTypes
        <3> QED  BY <3>1, LedgerNext
    <2>5. \A b \in Actors :
             pc'[b] \notin {"read", "append"} => entry'[b].cost = 0
        BY <1>0, <1>4 DEF Goto, LedgerInv, TypeInv, TypeOK
    <2> QED  BY <1>1, <2>4, <2>5 DEF LedgerInv
<1> QED  BY <1>2, <1>3, <1>4

LEMMA LedgerOfPipeline ==
    ASSUME TypeInv, LedgerInv,
           LeadReturns \/ Join \/ \E i \in 1..Len(Order) : StartTask(i)
    PROVE  LedgerInv'
<1>1. CASE LeadReturns \/ Join
    BY <1>1, LedgerKept DEF LeadReturns, Join, meter, audit, bounds
<1>2. CASE \E i \in 1..Len(Order) : StartTask(i)
    <2> PICK i \in 1..Len(Order) : StartTask(i)
        BY <1>2
    <2>1. pc[Order[i]] = "idle" /\ pc' = [pc EXCEPT ![Order[i]] = "work"]
        BY DEF StartTask, Goto
    <2> QED
        BY <2>1, LedgerKept DEF StartTask, meter, audit, bounds, TypeInv, TypeOK
<1> QED  BY <1>1, <1>2

LEMMA LedgerStep ==
    TypeInv /\ TypeInv' /\ LedgerInv /\ [Next]_vars => LedgerInv'
<1> SUFFICES ASSUME TypeInv, TypeInv', LedgerInv, [Next]_vars
             PROVE  LedgerInv'
    OBVIOUS
<1>1. CASE UNCHANGED vars
    BY <1>1, LedgerKept DEF vars, meter, audit, bounds
<1>2. CASE Next
    BY <1>2, LedgerOfCalls, LedgerOfLog, LedgerOfReset, LedgerOfTasks,
       LedgerOfPipeline
    DEF Next
<1> QED  BY <1>1, <1>2

LEMMA LedgerInit == Init => LedgerInv
<1> SUFFICES ASSUME Init PROVE LedgerInv
    OBVIOUS
<1>1. TypeInv
    BY TypeInit
<1>2. /\ \A a \in Actors : entry[a].cost = 0
      /\ spent = 0 /\ unlogged = 0 /\ base = 0 /\ log = <<>>
    BY DEF Init, Nothing
<1>3. AllCosts(entry) = 0
    BY <1>1, <1>2, LedgerNow, NoCosts
<1>4. base <= Len(log) /\ Len(log) - base = 0
    BY <1>2
<1>5. LoggedIn(log, base) = 0
    BY <1>1, <1>4, LedgerNow, NoLines
<1>6. spent = LoggedIn(log, base) + AllCosts(entry) + unlogged
    BY <1>2, <1>3, <1>5
<1> QED  BY <1>1, <1>2, <1>4, <1>6, LedgerNow DEF LedgerInv

\* The audit log and the cost tracker agree: every sum spent is in the log
\* once, on its way there, or known to be lost, whoever spends at the same
\* time and whatever writes fail (CostTracker.record, _append_to_file).
THEOREM LedgerCorrect == Spec => []LedgerAgrees
<1>1. LedgerInv => LedgerAgrees
    BY DEF LedgerInv
<1> QED  BY <1>1, TypeAlways, LedgerInit, LedgerStep, PTL DEF Spec

=============================================================================
