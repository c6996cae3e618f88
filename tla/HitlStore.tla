----------------------------- MODULE HitlStore -----------------------------
(***************************************************************************)
(* The human-in-the-loop store: one JSON document (memory/storage.py) with *)
(* the checkpoints and the experiences of every team, the tasks that add   *)
(* to it, the reviewers' dashboards that decide on its items, and the      *)
(* skill files that an approved experience extends.                        *)
(*                                                                         *)
(* Every operation loads the document, changes its copy and saves it.  The *)
(* locks cover one load or one save, so operations of different processes, *)
(* and of the threads that add_experience runs in, interleave in between.  *)
(* save replaces the file by a rename: a load never sees half a document.  *)
(***************************************************************************)
EXTENDS Naturals, Sequences, FiniteSets

CONSTANTS
    Teams, Tasks, Reviewers,
    TeamOf,           \* TEAM_ID of the process that runs a task
    Steps,            \* steps a skill may have
    Lessons,          \* those that the lessons of a task's experience add
    SeedSteps,        \* steps of version v1 of the skill
    MaxCheckpoints,   \* 100: entries checkpoint_store.submit keeps
    MaxExperiences,   \* 200: entries approval_queue.submit keeps
    MaxMemories,      \* 100: entries add_experience keeps of the same list
    MaxDecisions      \* bound on the decisions taken

ASSUME StoreAssumption ==
    /\ TeamOf \in [Tasks -> Teams]
    /\ Lessons \in [Tasks -> SUBSET Steps]
    /\ SeedSteps \subseteq Steps
    /\ {MaxCheckpoints, MaxExperiences, MaxMemories} \subseteq Nat \ {0}
    /\ MaxDecisions \in Nat
    /\ Tasks \cap Reviewers = {}

VARIABLES
    doc,              \* the file: for each team its two lists
    skills,           \* the version files of the skill, v1 first
    at,               \* where each process is in its operation
    frame,            \* the local variables of the operation
    stage,            \* the next operation of each task
    decisions,        \* number of decisions taken
    submitted,        \* observer: the items a save has put into the document
    given             \* observer: the verdicts saved for each item

observers == <<submitted, given>>
vars == <<doc, skills, at, frame, stage, decisions, observers>>

Processes == Tasks \cup Reviewers
Kinds == {"checkpoint", "memory", "experience"}
Items == {"checkpoint", "experience"} \X Tasks
Verdicts == {"approved", "rejected"}

ListOf(kind) == IF kind = "checkpoint" THEN "checkpoints" ELSE "experiences"
EmptyLists == [checkpoints |-> <<>>, experiences |-> <<>>]

\* copy: the team's lists as the operation loaded them; base: the document as
\* TenantAwareStorage.save loaded it, without the lists it is to replace;
\* draft: the skill version to be written.
NoFrame == [team |-> "none", entry |-> "none", copy |-> EmptyLists,
            base |-> "none", draft |-> "none"]

Init ==
    /\ doc = [k \in Teams |-> EmptyLists]
    /\ skills = <<[from |-> "seed", steps |-> SeedSteps, torn |-> FALSE]>>
    /\ at = [p \in Processes |-> "idle"]
    /\ frame = [p \in Processes |-> NoFrame]
    /\ stage = [t \in Tasks |-> "checkpoint"]
    /\ decisions = 0
    /\ submitted = {} /\ given = [i \in Items |-> {}]

-----------------------------------------------------------------------------
(* The changes the operations make to their copy.                          *)

\* Mutant of LastOf: one entry more than the cap.
LastOfAndOne(s, n) ==
    IF Len(s) > n + 1 THEN SubSeq(s, Len(s) - n, Len(s)) ELSE s

\* The slice s[-n:], taken when the list is longer than its cap.
LastOf(s, n) == IF Len(s) > n THEN SubSeq(s, Len(s) - n + 1, Len(s)) ELSE s

Cap == [checkpoint |-> MaxCheckpoints, memory |-> MaxMemories,
        experience |-> MaxExperiences]

SameItem(e, f) == e.kind = f.kind /\ e.task = f.task

Has(lists, e) ==
    \E i \in DOMAIN lists[ListOf(e.kind)] :
        SameItem(lists[ListOf(e.kind)][i], e)

Inserted(lists, e) ==
    [lists EXCEPT ![ListOf(e.kind)] = LastOf(Append(@, e), Cap[e.kind])]

\* Mutant of Decided: the position a dashboard showed, instead of the id.
DecidedAtEnd(lists, e) ==
    [lists EXCEPT ![ListOf(e.kind)] =
        [i \in DOMAIN @ |-> IF i = Len(@) THEN [@[i] EXCEPT !.status = e.status]
                            ELSE @[i]]]

\* approve and reject find the entry by its id and not by its status.
Decided(lists, e) ==
    [lists EXCEPT ![ListOf(e.kind)] =
        [i \in DOMAIN @ |-> IF SameItem(@[i], e) THEN e ELSE @[i]]]

-----------------------------------------------------------------------------
(* One operation: load, load again inside TenantAwareStorage.save, save.   *)

\* Mutant of Load: the store of the server, not of the team in the token.
LoadDefault(p, team, e) ==
    /\ at[p] = "idle"
    /\ at' = [at EXCEPT ![p] = "loaded"]
    /\ frame' = [frame EXCEPT ![p] =
                    [NoFrame EXCEPT !.team = team, !.entry = e,
                                    !.copy = doc[CHOOSE k \in Teams : TRUE]]]
    /\ UNCHANGED <<doc, skills, observers>>

Load(p, team, e) ==
    /\ at[p] = "idle"
    /\ at' = [at EXCEPT ![p] = "loaded"]
    /\ frame' = [frame EXCEPT ![p] =
                    [NoFrame EXCEPT !.team = team, !.entry = e,
                                    !.copy = doc[team]]]
    /\ UNCHANGED <<doc, skills, observers>>

Return(p) ==
    /\ at' = [at EXCEPT ![p] = "idle"]
    /\ frame' = [frame EXCEPT ![p] = NoFrame]

\* A task submits its checkpoint, records its outcome, submits its experience.
Submit(t) ==
    /\ stage[t] \in Kinds
    /\ Load(t, TeamOf[t],
            [kind |-> stage[t], task |-> t,
             status |-> IF stage[t] = "memory" THEN "memory" ELSE "pending"])
    /\ UNCHANGED <<stage, decisions>>

After == [checkpoint |-> "memory", memory |-> "experience",
          experience |-> "done"]

\* No approval was needed, or nothing was fixed.
NothingToSubmit(t) ==
    /\ at[t] = "idle" /\ stage[t] \in {"checkpoint", "experience"}
    /\ stage' = [stage EXCEPT ![t] = After[@]]
    /\ UNCHANGED <<doc, skills, at, frame, decisions, observers>>

\* A reviewer decides on an item that the load finds; else the answer is 404.
Decide(r, team, i, verdict) ==
    LET e == [kind |-> i[1], task |-> i[2], status |-> verdict] IN
    /\ decisions < MaxDecisions
    /\ Has(doc[team], e)
    /\ Load(r, team, e)
    /\ decisions' = decisions + 1
    /\ UNCHANGED stage

Reload(p) ==
    /\ at[p] = "loaded"
    /\ at' = [at EXCEPT ![p] = "reloaded"]
    /\ frame' = [frame EXCEPT ![p].base =
                    [doc EXCEPT ![frame[p].team] = EmptyLists]]
    /\ UNCHANGED <<doc, skills, stage, decisions, observers>>

\* The team's lists replace those of the team alone.
Save(p, lists) ==
    /\ at[p] = "reloaded"
    /\ doc' = [frame[p].base EXCEPT ![frame[p].team] = lists]

SaveSubmission(t) ==
    /\ Save(t, Inserted(frame[t].copy, frame[t].entry))
    /\ stage' = [stage EXCEPT ![t] = After[@]]
    /\ submitted' = submitted \cup {<<stage[t], t>>}
    /\ Return(t)
    /\ UNCHANGED <<skills, decisions, given>>

\* Mutant of SaveDecision: a rejected experience goes on to the skills too.
SaveAndApply(r) ==
    LET e == frame[r].entry IN
    /\ Save(r, Decided(frame[r].copy, e))
    /\ given' = [given EXCEPT ![<<e.kind, e.task>>] = @ \cup {e.status}]
    /\ IF e.kind = "experience"
       THEN at' = [at EXCEPT ![r] = "approved"] /\ UNCHANGED frame
       ELSE Return(r)
    /\ UNCHANGED <<skills, stage, decisions, submitted>>

\* An approved experience goes on to the skills, any other decision is done.
SaveDecision(r) ==
    LET e == frame[r].entry IN
    /\ Save(r, Decided(frame[r].copy, e))
    /\ given' = [given EXCEPT ![<<e.kind, e.task>>] = @ \cup {e.status}]
    /\ IF e.kind = "experience" /\ e.status = "approved"
       THEN at' = [at EXCEPT ![r] = "approved"] /\ UNCHANGED frame
       ELSE Return(r)
    /\ UNCHANGED <<skills, stage, decisions, submitted>>

-----------------------------------------------------------------------------
(* SkillVersioner.create_new_version, for a skill that matches the type of *)
(* every task.                                                             *)

Latest == skills[Len(skills)]
LessonsOf(r) == Lessons[frame[r].entry.task]
Version(r, steps, torn) ==
    [from |-> frame[r].entry.task, steps |-> steps, torn |-> torn]

\* The latest version cannot be read, or the lessons add nothing to it.
NoNewVersion(r) ==
    /\ at[r] = "approved"
    /\ Latest.torn \/ LessonsOf(r) \subseteq Latest.steps
    /\ Return(r)
    /\ UNCHANGED <<doc, skills, stage, decisions, observers>>

\* Mutant of ReadSkill: a version even if the lessons add nothing.
ReadSkillAlways(r) ==
    /\ at[r] = "approved"
    /\ ~Latest.torn
    /\ at' = [at EXCEPT ![r] = "read"]
    /\ frame' = [frame EXCEPT ![r].draft =
                    [number |-> Len(skills) + 1,
                     steps |-> Latest.steps \cup LessonsOf(r)]]
    /\ UNCHANGED <<doc, skills, stage, decisions, observers>>

ReadSkill(r) ==
    /\ at[r] = "approved"
    /\ ~Latest.torn /\ ~(LessonsOf(r) \subseteq Latest.steps)
    /\ at' = [at EXCEPT ![r] = "read"]
    /\ frame' = [frame EXCEPT ![r].draft =
                    [number |-> Len(skills) + 1,
                     steps |-> Latest.steps \cup LessonsOf(r)]]
    /\ UNCHANGED <<doc, skills, stage, decisions, observers>>

\* Version files are named by their number, the next one or one that is there.
PutVersion(n, v) ==
    skills' = IF n > Len(skills) THEN Append(skills, v)
              ELSE [skills EXCEPT ![n] = v]

\* open(save_path, "w") creates the file or empties it.
OpenVersion(r) ==
    /\ at[r] = "read"
    /\ at' = [at EXCEPT ![r] = "opened"]
    /\ PutVersion(frame[r].draft.number, Version(r, {}, TRUE))
    /\ UNCHANGED <<doc, frame, stage, decisions, observers>>

WriteVersion(r) ==
    /\ at[r] = "opened"
    /\ PutVersion(frame[r].draft.number,
                  Version(r, frame[r].draft.steps, FALSE))
    /\ Return(r)
    /\ UNCHANGED <<doc, stage, decisions, observers>>

-----------------------------------------------------------------------------
(* Failures.                                                               *)

\* The task's process stops, or a load or save raises: run_task ends, unless
\* it was recording its outcome, whose exceptions are logged.
TaskFails(t) ==
    /\ at[t] # "idle"
    /\ Return(t)
    /\ \/ stage[t] = "memory"
          /\ stage' = [stage EXCEPT ![t] = "experience"]
       \/ stage' = [stage EXCEPT ![t] = "done"]
    /\ UNCHANGED <<doc, skills, decisions, observers>>

\* A dashboard stops and is started again, or its handler raises.
ReviewFails(r) ==
    /\ at[r] # "idle"
    /\ Return(r)
    /\ UNCHANGED <<doc, skills, stage, decisions, observers>>

-----------------------------------------------------------------------------

TaskStep(t) ==
    \/ Submit(t) \/ NothingToSubmit(t) \/ SaveSubmission(t) \/ TaskFails(t)

Review(r) ==
    \/ \E team \in Teams, i \in Items, v \in Verdicts : Decide(r, team, i, v)
    \/ SaveDecision(r) \/ NoNewVersion(r)
    \/ ReadSkill(r) \/ OpenVersion(r) \/ WriteVersion(r) \/ ReviewFails(r)

Next ==
    \/ \E t \in Tasks : TaskStep(t)
    \/ \E r \in Reviewers : Review(r)
    \/ \E p \in Processes : Reload(p)

Spec == Init /\ [][Next]_vars

-----------------------------------------------------------------------------
(* Correctness.                                                            *)

Entries == [kind : Kinds, task : Tasks,
            status : {"pending", "memory"} \cup Verdicts]
Lists == [checkpoints : Seq(Entries), experiences : Seq(Entries)]
Versions == [from : Tasks \cup {"seed"}, steps : SUBSET Steps, torn : BOOLEAN]
Drafts == [number : Nat \ {0}, steps : SUBSET Steps]

WithinCaps(lists) ==
    /\ Len(lists.checkpoints) <= MaxCheckpoints
    /\ \/ Len(lists.experiences) <= MaxExperiences
       \/ Len(lists.experiences) <= MaxMemories

FrameOK(p) ==
    /\ DOMAIN frame[p] = DOMAIN NoFrame
    /\ frame[p].copy \in Lists /\ WithinCaps(frame[p].copy)
    /\ at[p] # "idle" => /\ frame[p].team \in Teams
                         /\ frame[p].entry \in Entries
    /\ at[p] = "reloaded" =>
         /\ frame[p].base \in [Teams -> Lists]
         /\ \A k \in Teams : WithinCaps(frame[p].base[k])
    /\ at[p] \in {"read", "opened"} => frame[p].draft \in Drafts

\* Every variable stays in its range, and every list within its cap.
TypeOK ==
    /\ doc \in [Teams -> Lists] /\ \A k \in Teams : WithinCaps(doc[k])
    /\ skills \in Seq(Versions) /\ skills # <<>>
    /\ at \in [Processes -> {"idle", "loaded", "reloaded", "approved", "read",
                             "opened"}]
    /\ DOMAIN frame = Processes /\ \A p \in Processes : FrameOK(p)
    /\ stage \in [Tasks -> Kinds \cup {"done"}]
    /\ decisions \in 0 .. MaxDecisions
    /\ submitted \subseteq Kinds \X Tasks
    /\ given \in [Items -> SUBSET Verdicts]

\* What a team sees is its own, whatever stale copies of the whole document
\* the other teams' processes save, and no list holds an item twice.
TeamsStayApart ==
    \A k \in Teams : \A l \in DOMAIN doc[k] :
        LET s == doc[k][l] IN
        /\ \A i \in DOMAIN s : TeamOf[s[i].task] = k
        /\ \A i, j \in DOMAIN s : SameItem(s[i], s[j]) => i = j

HumanApproved ==
    SeedSteps \cup UNION {Lessons[t] : t \in
        {u \in Tasks : "approved" \in given[<<"experience", u>>]}}

\* "Agent KHÔNG được tự học mà không có người duyệt": every step of every
\* version is a seed step or a lesson of an experience that a human approved.
OnlyApprovedLessons ==
    \A n \in DOMAIN skills : skills[n].steps \subseteq HumanApproved

\* However often an experience is approved, rejected and approved again, and
\* wherever a dashboard stopped, a readable version holds all that the one
\* before it held and something more, and only the last one may be torn.
VersionsGrow ==
    \A n \in 1 .. Len(skills) - 1 :
        /\ ~skills[n].torn
        /\ ~skills[n + 1].torn =>
             /\ skills[n].steps \subseteq skills[n + 1].steps
             /\ skills[n].steps # skills[n + 1].steps

\* What the team of a task reads of one of its items.
Shown(i) ==
    LET lists == doc[TeamOf[i[2]]]
        item  == [kind |-> i[1], task |-> i[2]]
        s     == lists[ListOf(i[1])]
        found == {n \in DOMAIN s : SameItem(s[n], item)}
    IN  IF found # {} THEN s[CHOOSE n \in found : TRUE].status
        ELSE IF i \in submitted THEN "lost" ELSE "none"

\* A poller may rely on ReviewPromise: verdicts come from humans, and from
\* nowhere else, through all the interleavings of loads and saves.
Promise == INSTANCE ReviewPromise WITH shown <- [i \in Items |-> Shown(i)]
KeepsPromise == Promise!Spec

=============================================================================
