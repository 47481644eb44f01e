----------------------------- MODULE Stage3Chunks -----------------------------
(***************************************************************************)
(* The resumable Stage 3 diagnostics (stage3_ticket_filter_diagnostics_v2  *)
(* .py), as its notebook runs it: up to three attempts of the engine, each *)
(* of which keeps the valid chunks it finds on the Drive, writes the       *)
(* others, gathers all of them and writes a summary and a quality report;  *)
(* then the notebook's receipt.                                            *)
(*                                                                         *)
(* A file on the Drive is written by opening it, which empties it, and     *)
(* filling it; it is torn in between, and whenever the Drive loses part  *)
(* of it.  A digest of a file stands for the file.  The rows of the pinned *)
(* catalog carry one market of one model each: its tickets, as <<ev,       *)
(* ratio>> in hundredths.  What the other markets, models and flags of a   *)
(* row are checked for only denies rows the pinned catalog does not have.  *)
(***************************************************************************)
EXTENDS Integers, Sequences, FiniteSets, SequencesExt, FiniteSetsExt

CONSTANTS
    Row,            \* what a row may hold: nonempty sequences of <<ev, ratio>>
    Chunks,         \* EXPECTED_CHUNKS
    ChunkSize,      \* rows of a chunk
    MaxKill,        \* bound: processes killed, reads and writes that raise
    MaxDamage,      \* bound: files the Drive tears
    Bound,          \* whether Stage 2's catalog has the pinned digest
    Torn,           \* what a reader finds in a file that is not whole
    Unset

ASSUME ChunksAssumption ==
    Chunks \in Nat \ {0} /\ ChunkSize \in Nat \ {0} /\ Bound \subseteq BOOLEAN

VARIABLES
    rows,           \* the catalog
    bound,          \* whether its digest is the pinned one
    chunk,          \* chunk[c]: chunk c on the Drive: Unset, Torn or its content
    disk,           \* disk[f]: what file f there holds: Unset, Torn or its content
    nb,             \* the notebook: whether it runs, its attempt, what it told last
    eng,            \* the engine: where it is, the chunks it found valid, its failure
    faults          \* kills and damages so far

chunkVars == <<rows, bound, chunk, disk, nb, eng, faults>>

Chunk == 0..(Chunks - 1)
File == {"summary", "quality", "receipt", "fatal"}
(* PROFILES, in hundredths: the least ev and the least ratio.              *)
Profiles == << <<0, 100>>, <<5, 105>>, <<10, 110>>, <<20, 120>>, <<35, 135>>, <<50, 150>>,
               <<100, 200>> >>
Profile == DOMAIN Profiles

Attempts == 3
Off == [on |-> FALSE, attempt |-> 0, told |-> Unset]
Stopped == [at |-> "off", open |-> FALSE, valid |-> {}, next |-> 0, class |-> Unset, held |-> Unset]
-----------------------------------------------------------------------------
Passes(ticket, p) == ticket[1] >= Profiles[p][1] /\ ticket[2] >= Profiles[p][2]

(* process_stage2_row: how many tickets of a row pass each profile.        *)
Compact(i) == [total |-> Len(rows[i]),
               counts |-> [p \in Profile |-> Quantify(DOMAIN rows[i],
                                                      LAMBDA k : Passes(rows[i][k], p))]]

RowsOf(c) == c * ChunkSize + 1 .. (c + 1) * ChunkSize
Made(c) == [id |-> c, lineage |-> "this", records |-> [i \in RowsOf(c) |-> Compact(i)]]

(* A chunk of another lineage: another catalog, prereg, profiles or size.  *)
Foreign(c) ==
    [id |-> c, lineage |-> "other",
     records |-> [i \in RowsOf(c) |-> [total |-> 1, counts |-> [p \in Profile |-> 1]]]]

Fits(content) ==
    \A i \in DOMAIN content.records :
        LET r == content.records[i] IN
        /\ r.total > 0
        /\ \A p \in Profile : /\ r.counts[p] \in 0..r.total
                              /\ p > 1 => r.counts[p] <= r.counts[p - 1]

(* Slip: the lineage of the chunk is not looked at.                        *)
ValidAny(c, f) == f \notin {Unset, Torn} /\ f.id = c /\ DOMAIN f.records = RowsOf(c) /\ Fits(f)
Valid(c, f) ==                                               \* load_valid_chunk
    /\ f \notin {Unset, Torn}
    /\ f.id = c /\ f.lineage = "this" /\ DOMAIN f.records = RowsOf(c) /\ Fits(f)

ValidChunks == {c \in Chunk : Valid(c, chunk[c])}

(* Slip: the weights of the two neighbours are swapped.                    *)
QuantileSwapped(xs, q) ==
    LET pos == (Len(xs) - 1) * q
        lo  == pos \div 100
        hi  == IF pos % 100 = 0 THEN lo ELSE lo + 1
    IN  xs[hi + 1] * (100 - (pos % 100)) + xs[lo + 1] * (pos % 100)
(* quantile_sorted at q percent, times 100.                                *)
QuantileOf(xs, q) ==
    LET pos == (Len(xs) - 1) * q
        lo  == pos \div 100
        hi  == IF pos % 100 = 0 THEN lo ELSE lo + 1
    IN  xs[lo + 1] * (100 - (pos % 100)) + xs[hi + 1] * (pos % 100)

Figures(xs) == [candidates |-> FoldSeq(+, 0, xs),
                no_bet |-> Quantify(DOMAIN xs, LAMBDA i : xs[i] = 0),
                quantiles |-> LET s == SortSeq(xs, <=)
                              IN  [q \in {0, 25, 50, 75, 90, 95, 99, 100} |-> QuantileOf(s, q)]]

(* aggregate_chunks, from the chunks on the Drive.                         *)
Gathered ==
    LET record(i) == chunk[(i - 1) \div ChunkSize].records[i]
    IN  [p \in Profile |-> Figures([i \in DOMAIN rows |-> record(i).counts[p]])]
-----------------------------------------------------------------------------
ChunksInit ==
    /\ rows \in [1..(Chunks * ChunkSize) -> Row] /\ bound \in Bound
    /\ \E old \in SUBSET Chunk :
         chunk = [c \in Chunk |-> IF c \in old THEN Foreign(c) ELSE Unset]
    /\ disk = [f \in File |-> Unset]
    /\ nb = Off /\ eng = Stopped /\ faults = [kill |-> 0, damage |-> 0]

Engine(at) == eng' = [eng EXCEPT !.at = at, !.open = FALSE]
StartEngine == eng' = [Stopped EXCEPT !.at = "check"]
Fail(class) == eng' = [eng EXCEPT !.at = "fatal", !.open = FALSE, !.class = class]

(* The notebook's fast path: its receipt fits the report and the summary.  *)
AlreadyPassed ==
    /\ \A f \in {"receipt", "quality", "summary"} : disk[f] # Unset
    /\ disk["receipt"] # Torn /\ disk["quality"] # Torn
    /\ disk["receipt"] = [summary |-> disk["summary"], quality |-> disk["quality"]]

Start == /\ ~nb.on
         /\ IF AlreadyPassed THEN nb' = [nb EXCEPT !.told = "PASS"] /\ UNCHANGED eng
            ELSE nb' = [on |-> TRUE, attempt |-> 1, told |-> Unset] /\ StartEngine
         /\ UNCHANGED <<rows, bound, chunk, disk, faults>>

(* A file is opened, which empties it, and filled.                         *)
Put(f, content, next) ==
    /\ disk' = [disk EXCEPT ![f] = IF eng.open THEN content ELSE Torn]
    /\ IF eng.open THEN next ELSE eng' = [eng EXCEPT !.open = TRUE]

Check == /\ eng.at = "check"
         /\ IF bound THEN Engine("survey") ELSE Fail("SCIENTIFIC_FAIL_CLOSED")
         /\ UNCHANGED <<rows, bound, chunk, disk, nb, faults>>

(* Slip: every chunk is made again.                                        *)
SurveyNone == /\ eng.at = "survey"
              /\ eng' = [eng EXCEPT !.at = "chunk", !.valid = {}]
              /\ UNCHANGED <<rows, bound, chunk, disk, nb, faults>>
Survey == /\ eng.at = "survey"
          /\ eng' = [eng EXCEPT !.at = "chunk", !.valid = ValidChunks]
          /\ UNCHANGED <<rows, bound, chunk, disk, nb, faults>>

NextChunk == IF eng.next + 1 < Chunks THEN "chunk" ELSE "gather"
Advance == eng' = [eng EXCEPT !.at = NextChunk, !.next = @ + 1, !.open = FALSE]

Skip == /\ eng.at = "chunk" /\ eng.next \in eng.valid
        /\ Advance
        /\ UNCHANGED <<rows, bound, chunk, disk, nb, faults>>

PublishChunk == /\ eng.at = "chunk" /\ eng.next \notin eng.valid       \* publish_chunk_atomic
                /\ chunk' = [chunk EXCEPT ![eng.next] = IF eng.open THEN Made(eng.next) ELSE Torn]
                /\ IF eng.open THEN Engine("reread") ELSE eng' = [eng EXCEPT !.open = TRUE]
                /\ UNCHANGED <<rows, bound, disk, nb, faults>>

Reread == /\ eng.at = "reread"
          /\ IF Valid(eng.next, chunk[eng.next]) THEN Advance
             ELSE Fail("SCIENTIFIC_FAIL_CLOSED")
          /\ UNCHANGED <<rows, bound, chunk, disk, nb, faults>>

Gather == /\ eng.at = "gather"                                         \* aggregate_chunks
          /\ IF ValidChunks = Chunk
             THEN eng' = [eng EXCEPT !.at = "summary", !.held = Gathered]
             ELSE Fail("SCIENTIFIC_FAIL_CLOSED")
          /\ UNCHANGED <<rows, bound, chunk, disk, nb, faults>>

Summarize == /\ eng.at = "summary"
             /\ Put("summary", eng.held, Engine("digest"))
             /\ UNCHANGED <<rows, bound, chunk, nb, faults>>

Digest == /\ eng.at = "digest"
          /\ eng' = [eng EXCEPT !.at = "quality",
                                !.held = [figures |-> @, summary |-> disk["summary"]]]
          /\ UNCHANGED <<rows, bound, chunk, disk, nb, faults>>

Report == /\ eng.at = "quality"
          /\ Put("quality", eng.held, Engine("unlink"))
          /\ UNCHANGED <<rows, bound, chunk, nb, faults>>

UnlinkFatal == /\ eng.at = "unlink"
               /\ disk' = [disk EXCEPT !["fatal"] = Unset] /\ Engine("passed")
               /\ UNCHANGED <<rows, bound, chunk, nb, faults>>

WriteFatal == /\ eng.at = "fatal"
              /\ Put("fatal", eng.class, Engine("failed"))
              /\ UNCHANGED <<rows, bound, chunk, nb, faults>>

Tell(what) == nb' = [Off EXCEPT !.told = what] /\ eng' = Stopped

(* Slip: the attempts are not counted.                                     *)
FailedAgain == /\ eng.at = "failed"
               /\ nb' = [nb EXCEPT !.attempt = @ + 1] /\ StartEngine
               /\ UNCHANGED <<rows, bound, chunk, disk, faults>>
Failed == /\ eng.at = "failed"                                  \* the notebook, return code 2
          /\ IF disk["fatal"] = "SCIENTIFIC_FAIL_CLOSED" THEN Tell("SCIENTIFIC")
             ELSE IF nb.attempt < Attempts
                  THEN nb' = [nb EXCEPT !.attempt = @ + 1] /\ StartEngine
             ELSE Tell("RETRYABLE")
          /\ UNCHANGED <<rows, bound, chunk, disk, faults>>

Passed == /\ eng.at = "passed"                                  \* the notebook, return code 0
          /\ IF disk["quality"] = Torn THEN Tell("RED")
             ELSE eng' = [eng EXCEPT !.at = "receipt",
                                     !.held = [summary |-> disk["summary"],
                                               quality |-> disk["quality"]]]
                  /\ UNCHANGED nb
          /\ UNCHANGED <<rows, bound, chunk, disk, faults>>

WriteReceipt == /\ eng.at = "receipt"
                /\ Put("receipt", eng.held, Tell("PASS"))
                /\ UNCHANGED <<rows, bound, chunk, faults>>
                /\ ~eng.open => UNCHANGED nb

Kill == /\ faults.kill < MaxKill /\ faults' = [faults EXCEPT !.kill = @ + 1]
        /\ UNCHANGED <<rows, bound, chunk, disk>>
Works == eng.at \in {"check", "survey", "chunk", "reread", "gather", "summary", "digest",
                     "quality", "unlink"}
(* Slip: whatever is raised counts as a scientific failure.                *)
RaiseScientific == /\ Works /\ Fail("SCIENTIFIC_FAIL_CLOSED") /\ Kill
                   /\ UNCHANGED nb
Raise == /\ Works /\ Fail("RUNTIME_RETRYABLE") /\ Kill          \* a read or a write raises
         /\ UNCHANGED nb
KillEngine == /\ Works \/ eng.at = "fatal"
              /\ Engine("failed") /\ Kill
              /\ UNCHANGED nb
Disconnect == nb.on /\ nb' = Off /\ eng' = Stopped /\ Kill

Tear == /\ faults.damage < MaxDamage /\ faults' = [faults EXCEPT !.damage = @ + 1]
        /\ \/ /\ \E c \in Chunk : chunk[c] # Unset /\ chunk' = [chunk EXCEPT ![c] = Torn]
              /\ UNCHANGED disk
           \/ /\ \E f \in {"summary", "quality", "receipt"} :
                    disk[f] # Unset /\ disk' = [disk EXCEPT ![f] = Torn]
              /\ UNCHANGED chunk
        /\ UNCHANGED <<rows, bound, nb, eng>>

EngineStep == \/ Check \/ Survey \/ Skip \/ PublishChunk \/ Reread \/ Gather \/ Summarize
              \/ Digest \/ Report \/ UnlinkFatal \/ WriteFatal \/ Failed \/ Passed \/ WriteReceipt
ChunksNext == \/ Start \/ EngineStep
              \/ Raise \/ KillEngine \/ Disconnect \/ Tear

(* A notebook that runs goes on, and its owner runs it again unless it     *)
(* passed or told of a scientific failure.                                 *)
Again == nb.told \notin {"PASS", "SCIENTIFIC"} /\ Start
ChunksSpec == ChunksInit /\ [][ChunksNext]_chunkVars
ChunksFairness == WF_chunkVars(EngineStep) /\ WF_chunkVars(Again)
ChunksLiveSpec == ChunksSpec /\ ChunksFairness
-----------------------------------------------------------------------------
ChunksTypeOK ==
    /\ nb.attempt \in 0..Attempts /\ nb.told \in {Unset, "PASS", "SCIENTIFIC", "RETRYABLE", "RED"}
    /\ eng.next \in 0..Chunks /\ eng.valid \subseteq Chunk
    /\ disk["fatal"] \in {Unset, Torn, "SCIENTIFIC_FAIL_CLOSED", "RUNTIME_RETRYABLE"}
    /\ faults.kill \in 0..MaxKill /\ faults.damage \in 0..MaxDamage

(* The report the notebook trusts without computing again is what one pass *)
(* over the whole catalog gives, however often the work was cut off, torn  *)
(* or begun over the chunks of another lineage.                            *)
FastPathSound ==
    AlreadyPassed =>
        \A p \in Profile :
            LET figures == disk["quality"].figures[p] IN
            /\ figures.candidates =
                 Cardinality({t \in UNION {{i} \X DOMAIN rows[i] : i \in DOMAIN rows} :
                                Passes(rows[t[1]][t[2]], p)})
            /\ figures.no_bet =
                 Cardinality({i \in DOMAIN rows :
                                \A k \in DOMAIN rows[i] : ~Passes(rows[i][k], p)})

(* The quantiles of a report rise with their share, and none of them rises *)
(* with a stricter profile.                                                *)
QuantilesOrdered ==
    disk["quality"] \notin {Unset, Torn} =>
        LET of(p) == disk["quality"].figures[p].quantiles IN
        \A p \in Profile : \A q, r \in DOMAIN of(p) :
            /\ q < r => of(p)[q] <= of(p)[r]
            /\ p > 1 => of(p)[q] <= of(p - 1)[q]

(* Completed work is kept: no run writes over a valid chunk.               *)
ChunksKept ==
    [][\A c \in Chunk : Valid(c, chunk[c]) /\ chunk'[c] # chunk[c]
                            => faults'.damage > faults.damage]_chunkVars

(* A run over the pinned catalog comes to its PASS, however often it is    *)
(* killed, as long as the Drive keeps what was written.                    *)
PassesInTheEnd == <>(nb.told = "PASS")

(* Chunks are published whole.                                             *)
PublishedWhole == \A c \in Chunk : chunk[c] # Torn

(* A scientific failure is told only of data that are not the pinned ones. *)
ScientificMeansData == nb.told = "SCIENTIFIC" => ~bound
===============================================================================
