----------------------------- MODULE PriceRecovery -----------------------------
(***************************************************************************)
(* Stage 0 of the keirin evaluation: closing prices are recovered from     *)
(* archived pages (stage0_price_bulk_runner_v1.py and v2, and the parser   *)
(* kdreams_price_catalog_recovery_v1.py).                                  *)
(*                                                                         *)
(* A session clears what an earlier one left, passes the input gates,      *)
(* resolves the archived page of every race, parses page after page into   *)
(* the catalog and writes its reports, the receipt last.  It may be killed *)
(* anywhere and run again; the archive on the Drive may change meanwhile.  *)
(* A digest stands for what it is of.                                      *)
(***************************************************************************)
EXTENDS Integers, Sequences, SequencesExt, FiniteSetsExt

CONSTANTS
    RaceOrder,      \* the race ids in the order of the universe
    Car,           \* car numbers
    Page,           \* what an archived page may hold (see IsPage)
    Shelf,          \* how the copies of a page may lie in the archive at first
    MaxRun,         \* bound: sessions
    MaxChange,      \* bound: changes of the archive
    Missing         \* no file

Races == ToSet(RaceOrder)

(* Copies of a page: two names in the raw directory begin with its digest, *)
(* and the provenance may give a path of its own.                          *)
InDirectory == {"plain", "second"}
Copy == InDirectory \cup {"explicit"}

VARIABLES
    ver,            \* the runner in use: "v1" or "v2"
    page,           \* page[r]: what the page with race r's recorded digest holds
    archive,        \* archive[r][c]: copy c of that page: "none", "good" or "bad"
    disk,           \* the output files, Missing where there is none
    ses,            \* the session: where it is, and what it has in memory
    runs, changes

recoveryVars == <<ver, page, archive, disk, ses, runs, changes>>
-----------------------------------------------------------------------------
(* Tickets: an ordered one is a pair, an unordered one the set of its cars.*)
CarMarkets == {"2shatan", "2shahuku", "3renhuku"}
Tickets(m, cars) ==
    CASE m = "2shatan"  -> {t \in cars \X cars : t[1] # t[2]}
      [] m = "2shahuku" -> kSubset(2, cars)
      [] m = "3renhuku" -> kSubset(3, cars)
CarsOf(m, t) == IF m = "2shatan" THEN {t[1], t[2]} ELSE t

(* The keys a market's parser keeps: parse_2way takes a price wherever it  *)
(* stands in the table, on the diagonal too, where the key names one car   *)
(* twice; parse_3renhuku passes such a key over.                           *)
Keys(m, cars) ==
    CASE m = "2shatan"  -> cars \X cars
      [] m = "2shahuku" -> kSubset(1, cars) \cup kSubset(2, cars)
      [] m = "3renhuku" -> kSubset(3, cars)

(* A page says whether its odds are the confirmed ones and, per market     *)
(* sold, which keys have a numeric price.  The frame market has no count   *)
(* of its own.                                                             *)
IsPage(p) ==
    /\ p.confirmed \in BOOLEAN
    /\ \A m \in DOMAIN p.sold : m # "2wakutan" => p.sold[m] \subseteq Keys(m, Car)

expected_count(m, n) ==
    CASE m = "2shatan"  -> n * (n - 1)
      [] m = "2shahuku" -> (n * (n - 1)) \div 2
      [] m = "3renhuku" -> (n * (n - 1) * (n - 2)) \div 6

ASSUME RecoveryAssumption ==
    /\ RaceOrder \in Seq(Races) /\ \A i, j \in 1..Len(RaceOrder) : i # j => RaceOrder[i] # RaceOrder[j]
    /\ IsFiniteSet(Car) /\ \A p \in Page : IsPage(p)
    /\ Shelf \subseteq [Copy -> {"none", "good", "bad"}]
    /\ MaxRun \in Nat /\ MaxChange \in Nat

ticket_car_set(m, catalog) == UNION {CarsOf(m, t) : t \in catalog}

(* A slip: the parser forgets to compare the counts.                       *)
parse_payload_uncounted(p) ==
    LET sets == {ticket_car_set(m, p.sold[m]) : m \in DOMAIN p.sold \cap CarMarkets}
    IN  p.confirmed /\ Cardinality(sets) = 1 /\ \A active \in sets : Cardinality(active) >= 3

(* What parse_payload demands; a market sold without any price is refused  *)
(* by its parser.                                                          *)
parse_payload(p) ==
    LET car == DOMAIN p.sold \cap CarMarkets
        sets == {ticket_car_set(m, p.sold[m]) : m \in car}
    IN  /\ p.confirmed
        /\ \A m \in DOMAIN p.sold : p.sold[m] # {}
        /\ Cardinality(sets) = 1
        /\ \A active \in sets :
              /\ Cardinality(active) >= 3
              /\ \A m \in car : Cardinality(p.sold[m]) = expected_count(m, Cardinality(active))
-----------------------------------------------------------------------------
Present(r, cs) == {c \in cs : archive[r][c] # "none"}

(* v2 takes the one copy of the directory, and the explicit path only if   *)
(* the directory has none: two copies are refused.  v1 takes any copy      *)
(* whose bytes have the digest.                                            *)
resolve_raw_path(r) ==
    LET there == Present(r, InDirectory)
    IN  IF there = {} THEN Present(r, {"explicit"})
        ELSE IF Cardinality(there) = 1 THEN there ELSE {}
read_verify_gzip(r, c) == archive[r][c] = "good"
resolve_raw_result_path(r) == {c \in Present(r, Copy) : read_verify_gzip(r, c)}

Verified_v2(r) == {c \in resolve_raw_path(r) : read_verify_gzip(r, c)}

(* known_output_paths, in the order they are removed in.                   *)
known_output_paths == <<"price", "fail", "quality", "receipt", "fatal", "bundle">>
Output == ToSet(known_output_paths)
Position(f) == CHOOSE i \in DOMAIN known_output_paths : known_output_paths[i] = f
Left == {f \in Output : disk[f] # Missing}

IdleSession == [pc |-> "idle", held |-> {}, next |-> 1, rows |-> {}, failed |-> {}]
At(pc) == ses.pc = pc
SesTo(pc) == ses' = [ses EXCEPT !.pc = pc]
Put(f, content) == disk' = [disk EXCEPT ![f] = content]
RecRests == UNCHANGED <<ver, page, archive, runs, changes>>

RecInit ==
    /\ ver \in {"v1", "v2"} /\ page \in [Races -> Page] /\ archive \in [Races -> Shelf]
    /\ disk = [f \in Output |-> Missing] /\ ses = IdleSession /\ runs = 0 /\ changes = 0

(* Both notebooks pass --overwrite.                                        *)
Start ==
    /\ At("idle") /\ runs < MaxRun
    /\ runs' = runs + 1 /\ ses' = [IdleSession EXCEPT !.pc = IF ver = "v1" THEN "bind" ELSE "clear"]
    /\ UNCHANGED <<ver, page, archive, disk, changes>>

(* The parser (and, for v2, the approval) is the pinned one: v1 asks       *)
(* before it clears, v2 afterwards.                                        *)
Bind ==
    /\ At("bind") /\ SesTo(IF ver = "v1" THEN "clear" ELSE "gate")
    /\ UNCHANGED disk /\ RecRests

(* v2 unlinks its files one by one in that order; rmtree of v1 takes them  *)
(* as it finds them.                                                       *)
Unlink(f) ==
    /\ ver = "v2" /\ At("clear") /\ f \in Left
    /\ \A g \in Left : Position(f) <= Position(g)
    /\ Put(f, Missing) /\ UNCHANGED ses /\ RecRests
Rmtree(f) ==
    /\ ver = "v1" /\ At("clear") /\ f \in Left
    /\ Put(f, Missing) /\ UNCHANGED ses /\ RecRests
AfterClearing == SesTo(IF ver = "v1" THEN "gate" ELSE "bind")
ClearedUnchecked == At("clear") /\ AfterClearing /\ UNCHANGED disk /\ RecRests   \* a slip
Cleared == At("clear") /\ Left = {} /\ AfterClearing /\ UNCHANGED disk /\ RecRests

(* The universe and the provenance are the pinned files, one row per race. *)
Admit == At("gate") /\ SesTo("preflight") /\ UNCHANGED disk /\ RecRests

(* A file that cannot be removed, an input missing or of another digest,   *)
(* another parser or approval: v2 leaves a fatal record, v1 a traceback.   *)
Refuse ==
    /\ ses.pc \in {"bind", "clear", "gate"} /\ ses' = IdleSession
    /\ IF ver = "v2" THEN Put("fatal", runs) ELSE UNCHANGED disk
    /\ RecRests

(* Every race is resolved before any page is parsed: v2 holds the path of  *)
(* its copy, v1 the bytes.                                                 *)
Hold(held, failed) ==
    /\ At("preflight") /\ Put("price", {}) /\ RecRests
    /\ ses' = [ses EXCEPT !.pc = "parse", !.held = held, !.failed = failed]
Preflight_v2 ==
    LET held == {h \in Races \X Copy : h[2] \in Verified_v2(h[1])}
    IN  ver = "v2" /\ Hold(held, {r \in Races : Verified_v2(r) = {}})
HeldBytes == {r \in Races : resolve_raw_result_path(r) # {}} \X {"bytes"}
(* A slip: the races that were not resolved are not recorded.              *)
PreflightUnrecorded == ver = "v1" /\ Hold(HeldBytes, {})
Preflight_v1 ==
    ver = "v1" /\ Hold(HeldBytes, {r \in Races : resolve_raw_result_path(r) = {}})
(* A page that does not parse excludes its race, and one that was not      *)
(* resolved is passed over.  v2 reads the page again, v1 kept its bytes.   *)
Parse(readable(_, _)) ==
    /\ At("parse") /\ ses.next <= Len(RaceOrder)
    /\ LET r == RaceOrder[ses.next]
           held == {h \in ses.held : h[1] = r}
           step == [ses EXCEPT !.next = @ + 1]
       IN  IF held = {} THEN ses' = step /\ UNCHANGED disk
           ELSE IF parse_payload(page[r]) /\ \A h \in held : readable(r, h[2])
           THEN ses' = [step EXCEPT !.rows = @ \cup {r}] /\ Put("price", disk.price \cup {r})
           ELSE ses' = [step EXCEPT !.failed = @ \cup {r}] /\ UNCHANGED disk
    /\ RecRests
ParseRace_v2 == ver = "v2" /\ Parse(read_verify_gzip)
ParseRace_v1 == LET Kept(r, c) == TRUE IN ver = "v1" /\ Parse(Kept)

WriteFailures ==
    /\ At("parse") /\ ses.next > Len(RaceOrder)
    /\ Put("fail", ses.failed) /\ SesTo("quality") /\ RecRests

Complete_v2 == ses.rows = Races /\ ses.failed = {}
Complete_v1 == ses.rows = Races
Status ==
    IF \/ ver = "v2" /\ Complete_v2
       \/ ver = "v1" /\ Complete_v1
    THEN "PASS_COMPLETE" ELSE "STAGE1_BLOCKED"

WriteQuality ==
    /\ At("quality")
    /\ Put("quality", [run |-> runs, status |-> Status, parsed |-> Cardinality(ses.rows)])
    /\ SesTo("bundle") /\ RecRests

(* The catalog is read back before it is bundled.                          *)
WriteBundle ==
    /\ At("bundle") /\ Cardinality(disk.price) = Cardinality(ses.rows)
    /\ Put("bundle", [price |-> disk.price, fail |-> disk.fail, quality |-> disk.quality])
    /\ SesTo("receipt") /\ RecRests

WriteReceipt ==
    /\ At("receipt")
    /\ Put("receipt", [status |-> Status, price |-> disk.price, quality |-> disk.quality,
                         bundle |-> disk.bundle])
    /\ ses' = IdleSession /\ RecRests

Kill == ~At("idle") /\ ses' = IdleSession /\ UNCHANGED disk /\ RecRests

(* The Drive syncs: a copy appears, vanishes or is cut short.              *)
Change(r, c) ==
    /\ changes < MaxChange /\ changes' = changes + 1
    /\ \E s \in {"none", "good", "bad"} \ {archive[r][c]} : archive' = [archive EXCEPT ![r][c] = s]
    /\ UNCHANGED <<ver, page, disk, ses, runs>>

RecNext ==
    \/ Start \/ \E f \in Output : Unlink(f) \/ Rmtree(f)
    \/ Bind \/ Cleared \/ Refuse \/ Admit
    \/ Preflight_v2 \/ Preflight_v1 \/ ParseRace_v2 \/ ParseRace_v1
    \/ WriteFailures \/ WriteQuality \/ WriteBundle \/ WriteReceipt \/ Kill
    \/ \E r \in Races, c \in Copy : Change(r, c)

RecSpec == RecInit /\ [][RecNext]_recoveryVars
-----------------------------------------------------------------------------
RecoveryTypeOK ==
    /\ ver \in {"v1", "v2"}
    /\ archive \in [Races -> [Copy -> {"none", "good", "bad"}]]
    /\ ses.held \subseteq Races \X (Copy \cup {"bytes"}) /\ ses.rows \subseteq Races
    /\ ses.failed \subseteq Races
    /\ runs \in 0..MaxRun /\ changes \in 0..MaxChange

(* A receipt on the Drive, of whatever session, never lies beside another  *)
(* catalog, quality report or bundle than the ones it cites: each of them  *)
(* is as cited or gone.                                                    *)
ReceiptStands ==
    disk.receipt # Missing =>
        \A f \in {"price", "quality", "bundle"} : disk[f] \in {Missing, disk.receipt[f]}

(* Every race is either in the catalog of a published receipt or excluded, *)
(* and not both.                                                           *)
RacesAccounted ==
    disk.receipt # Missing =>
        LET b == disk.receipt.bundle
        IN  b.price \cup b.fail = Races /\ b.price \cap b.fail = {}

(* PASS_COMPLETE, the gate to Stage 1, means that every race is in the     *)
(* catalog, and that a car market it sold lacks no more tickets of the     *)
(* race's cars than it has keys that name one car twice: the parser        *)
(* compares counts and car sets, never the tickets themselves.             *)
CompleteOrTwice ==
    disk.receipt # Missing /\ disk.receipt.status = "PASS_COMPLETE" =>
        /\ disk.receipt.price = Races
        /\ \A r \in Races : \E active \in SUBSET Car :
              /\ Cardinality(active) >= 3
              /\ \A m \in DOMAIN page[r].sold \cap CarMarkets :
                    LET sold  == page[r].sold[m]
                        twice == {t \in sold : \E c \in active : CarsOf(m, t) = {c}}
                    IN  /\ sold \ twice \subseteq Tickets(m, active)
                        /\ Cardinality(Tickets(m, active) \ sold) = Cardinality(twice)

(* The prices of Stage 0 (stage0_price_bulk_runner_v1.py and v2): no       *)
(* receipt beside what it does not cite, every race accounted for, and the *)
(* gate to Stage 1 opened by catalogs that have every ticket, or a key that*)
(* is none in its place.                                                   *)
RecoveryInvariant == RecoveryTypeOK /\ ReceiptStands /\ RacesAccounted /\ CompleteOrTwice
===============================================================================
