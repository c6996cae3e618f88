------------------------------ MODULE AuditLog ------------------------------
(***************************************************************************)
(* The JSONL file of AgentLogger: a sequence of lines, each an entry that  *)
(* names the hash of its predecessor, or the rest of a write that did not  *)
(* come to its end.  A hash is the number of the entry it was made from:   *)
(* two entries never share one.                                            *)
(***************************************************************************)
EXTENDS Sequences, Naturals, FiniteSetsExt

GenesisHash == 0

\* A torn line is not closed as long as it has no line end.
Torn(closed) == [readable |-> FALSE, closed |-> closed]

Entry(hash, prev, by, cost) ==
    [readable |-> TRUE, hash |-> hash, prev |-> prev, by |-> by,
     cost |-> cost]

Entries(lines) == {i \in 1..Len(lines) : lines[i].readable}

\* Mutant of LastEntryHash: of the last line only.
LastLineHash(lines) ==
    IF lines # <<>> /\ lines[Len(lines)].readable
    THEN lines[Len(lines)].hash ELSE GenesisHash

\* _last_entry_hash: lines that are no JSON are passed over.
LastEntryHash(lines) ==
    IF Entries(lines) = {} THEN GenesisHash
    ELSE lines[Max(Entries(lines))].hash

IsOpen(lines) ==
    lines # <<>> /\ ~lines[Len(lines)].readable /\ ~lines[Len(lines)].closed

\* The write of _append_to_file: behind a line without an end the entry
\* becomes part of that line.
AppendToFile(lines, entry) ==
    IF IsOpen(lines)
    THEN [lines EXCEPT ![Len(lines)] = Torn(TRUE)]
    ELSE Append(lines, entry)

\* The process dies in the middle of the write.
AppendTorn(lines) ==
    IF IsOpen(lines) THEN lines ELSE Append(lines, Torn(FALSE))

\* verify_log_file, torn lines aside: every entry names its predecessor.
Linked(lines) ==
    \A i, j \in Entries(lines) :
        i < j /\ Entries(lines) \cap (i + 1..j - 1) = {} =>
            lines[j].prev = lines[i].hash

=============================================================================
