---------------------------- MODULE SnapshotChain ----------------------------
(***************************************************************************)
(* The prospective snapshot collector                                      *)
(* (prospective_snapshot_collector_core_v2.py) with its manifest, a hash   *)
(* chain in a JSONL file (prospective_hash_chain_manifest_v1.py).          *)
(*                                                                         *)
(* A collector is a process: it judges an input, finds no snapshot of its  *)
(* race, creates the file, fills it, reads its digest, reads the manifest, *)
(* appends a line and reads the manifest again; it may die in between.  A  *)
(* digest stands for what it is of: the link of an entry is the chain      *)
(* before it.  The digest of the collector's own code is an argument of    *)
(* the command and nobody computes it: hex says whether it is 64 hex       *)
(* digits.                                                                 *)
(***************************************************************************)
EXTENDS Integers, Sequences, SequencesExt

CONSTANTS
    Collector,      \* processes
    Race,           \* race ids
    Content,        \* what an input may say of a race
    Offset,         \* clock offsets of a receipt, in milliseconds
    Age,            \* seconds from the clock receipt to the snapshot
    Before,         \* seconds from the snapshot to the cutoff
    MaxStart,       \* bound: collections started
    None

ASSUME SnapshotAssumption ==
    /\ None \notin Content \cup Race /\ "empty" \notin Content
    /\ Offset \subseteq Nat /\ MaxStart \in Nat
    /\ \A n \in Age \cup Before : n \in Int

VARIABLES
    files,          \* files[r]: race r's snapshot file: None, "empty" or its content
    chain,          \* the manifest's lines
    at,             \* at[p]: where collector p is
    passed,         \* the races reported PASS_LOCAL_AUDIT_ONLY
    started

snapVars == <<files, chain, at, passed, started>>

Clock == [offset : Offset, age : Age, synchronized : BOOLEAN]
Input == [race : Race, content : Content, hex : BOOLEAN,
          fit : BOOLEAN, before : Before, clock : Clock]
Entry(index, race, snapshot, hex, prev) ==
    [index |-> index, race |-> race, snapshot |-> snapshot, hex |-> hex, prev |-> prev]
Links(lines) == [i \in DOMAIN lines |-> <<lines[i].race, lines[i].snapshot, lines[i].hex>>]

Idle == [step |-> "idle", race |-> None, content |-> None, hex |-> FALSE, entry |-> None]

SnapInit == /\ files = [r \in Race |-> None] /\ chain = <<>>
            /\ at = [p \in Collector |-> Idle] /\ passed = {} /\ started = 0

Move(p, step) == at' = [at EXCEPT ![p].step = step]
Leave(p) == at' = [at EXCEPT ![p] = Idle]
-----------------------------------------------------------------------------
(* verify of the clock receipt: the offset, taken without its sign, is     *)
(* below 100 ms and the receipt at most a minute older than the snapshot.  *)
ClockFits(c) == c.synchronized /\ c.offset < 100 /\ c.age >= 0 /\ c.age <= 60

(* fit: the source is admitted, the keys, fields, style and class are      *)
(* those asked for, and the race is not of the holdout.                    *)
Admits(in) == in.fit /\ in.before > 0 /\ ClockFits(in.clock)

(* Slip: a snapshot that is there is written over.                         *)
CollectOver(p) ==
    \E in \in Input :
        /\ at[p] = Idle /\ started < MaxStart /\ Admits(in)
        /\ started' = started + 1
        /\ at' = [at EXCEPT ![p] = [Idle EXCEPT !.step = "create", !.race = in.race,
                                                !.content = in.content, !.hex = in.hex]]
        /\ UNCHANGED <<files, chain, passed>>
Collect(p) ==
    \E in \in Input :
        /\ at[p] = Idle /\ started < MaxStart
        /\ Admits(in) /\ files[in.race] = None
        /\ started' = started + 1
        /\ at' = [at EXCEPT ![p] = [Idle EXCEPT !.step = "create", !.race = in.race,
                                                !.content = in.content, !.hex = in.hex]]
        /\ UNCHANGED <<files, chain, passed>>

(* Slip: the digest is read before the file is filled.                     *)
CreateDigest(p) == /\ at[p].step = "create"
                   /\ files' = [files EXCEPT ![at[p].race] = "empty"]
                   /\ Move(p, "digest")
                   /\ UNCHANGED <<chain, passed, started>>
Create(p) == /\ at[p].step = "create"
             /\ files' = [files EXCEPT ![at[p].race] = "empty"]
             /\ Move(p, "fill")
             /\ UNCHANGED <<chain, passed, started>>

Fill(p) == /\ at[p].step = "fill"
           /\ files' = [files EXCEPT ![at[p].race] = at[p].content]
           /\ Move(p, "digest")
           /\ UNCHANGED <<chain, passed, started>>

Digest(p) == /\ at[p].step = "digest"
             /\ at' = [at EXCEPT ![p].step = "read", ![p].content = files[at[p].race]]
             /\ UNCHANGED <<files, chain, passed, started>>

(* Indices without a gap, every entry linked to those before, a race once. *)
Linked(lines) ==
    /\ \A i \in DOMAIN lines : /\ lines[i].index = i
                               /\ lines[i].prev = SubSeq(Links(lines), 1, i - 1)
    /\ \A i, j \in DOMAIN lines : lines[i].race = lines[j].race => i = j

(* Slip: the digest of the code is not looked at.                          *)
VerifiesAnyCode(lines) == Linked(lines)
Verifies(lines) == Linked(lines) /\ \A i \in DOMAIN lines : lines[i].hex

(* Slip: the index is the number of the lines before.                      *)
NextEntryBehind(race, snapshot, hex) == Entry(Len(chain), race, snapshot, hex, Links(chain))
NextEntry(race, snapshot, hex) == Entry(Len(chain) + 1, race, snapshot, hex, Links(chain))

Known(race) == \E i \in DOMAIN chain : chain[i].race = race

ReadChain(p) ==                                                      \* append, up to the write
    /\ at[p].step = "read"
    /\ IF ~Verifies(chain) \/ Known(at[p].race) THEN Leave(p)
       ELSE at' = [at EXCEPT ![p].step = "append",
                             ![p].entry = NextEntry(at[p].race, at[p].content, at[p].hex)]
    /\ UNCHANGED <<files, chain, passed, started>>

(* The line is written as it is, and looked at only afterwards (Report).   *)
(* Slip: the manifest is opened for writing, not for appending.            *)
WriteLineOver(p) == /\ at[p].step = "append"
                    /\ chain' = <<at[p].entry>>
                    /\ Move(p, "verify")
                    /\ UNCHANGED <<files, passed, started>>
WriteLine(p) == /\ at[p].step = "append"
                /\ chain' = Append(chain, at[p].entry)
                /\ Move(p, "verify")
                /\ UNCHANGED <<files, passed, started>>

Report(p) == /\ at[p].step = "verify"
             /\ passed' = IF Verifies(chain) THEN passed \cup {at[p].race} ELSE passed
             /\ Leave(p)
             /\ UNCHANGED <<files, chain, started>>

Die(p) == /\ at[p] # Idle /\ Leave(p)
          /\ UNCHANGED <<files, chain, passed, started>>

SnapNext == \E p \in Collector : \/ Collect(p) \/ Create(p) \/ Fill(p) \/ Digest(p)
                             \/ ReadChain(p) \/ WriteLine(p) \/ Report(p) \/ Die(p)

SnapSpec == SnapInit /\ [][SnapNext]_snapVars
-----------------------------------------------------------------------------
SnapTypeOK == /\ files \in [Race -> Content \cup {None, "empty"}]
              /\ \A i \in DOMAIN chain : chain[i].race \in Race /\ chain[i].snapshot \in Content
              /\ passed \subseteq Race /\ started \in 0..MaxStart
              /\ \A p \in Collector : at[p].race \in Race \cup {None}

(* The manifest is linked at every moment, and it verifies up to its last  *)
(* line: a line whose digest is no digest is the last one for ever.        *)
ChainVerifies == Linked(chain) /\ \A i \in DOMAIN chain : chain[i].hex \/ i = Len(chain)

(* What the manifest says of a race is what its snapshot file says, now    *)
(* and for ever: neither a repeated collection nor a death in the middle   *)
(* leaves a digest of something else.  A race that was reported is in the  *)
(* part of the manifest that verifies.                                     *)
ChainBindsFiles ==
    /\ \A i \in DOMAIN chain : files[chain[i].race] = chain[i].snapshot
    /\ \A r \in passed : \E i \in DOMAIN chain : chain[i].race = r /\ chain[i].hex

(* The manifest and the files (the collector's main, append): the chain is *)
(* linked and verifies up to a malformed last line, and each entry binds   *)
(* its file as it still is.                                                *)
ChainInvariant == SnapTypeOK /\ ChainVerifies /\ ChainBindsFiles

(* The manifest is append-only: no rewrite, insertion or deletion.         *)
OnlyAppended == [][IsPrefix(chain, chain') /\ Len(chain') <= Len(chain) + 1]_snapVars
===============================================================================
