------------------------------ MODULE RaceCapture ------------------------------
(***************************************************************************)
(* v3/prospective and v3/prospective_shadow250_v2: what is known of a race *)
(* before it is run is captured from two sites.                            *)
(*                                                                         *)
(*   - the racecard, a PDF of the Tamano velodrome, names the entrants     *)
(*     (tamano_racecard_hardlimit_adapter_v1.py);                          *)
(*   - a race's entrants are looked up at keirin.jp, each by prefecture    *)
(*     and term, and their profiles are read                               *)
(*     (keirinjp_race_batch_identity_supplement_v1.py to v3);              *)
(*   - the two are fused where they say the same twice                     *)
(*     (tamano_5plus3_fusion_guard_v2.py);                                 *)
(*   - one rider is looked up the same way (keirinjp_identity_locator_v2.py*)
(*     and v3), or by reading every profile a search lists (v1).           *)
(*                                                                         *)
(* A job is one run of one of these programs.  It asks a site once per     *)
(* action: it sleeps, passes its limiter, and handles what it is answered  *)
(* by a site that changes between its requests.  Time is counted in units  *)
(* of the spacing.  How pages and forms are read only denies and is left   *)
(* out: a page that is not as expected is an answer that fails.            *)
(***************************************************************************)
EXTENDS Integers, Sequences, FiniteSets

CONSTANTS
    Riders,         \* entrants of a race (REQUIRED_RIDERS)
    Name,           \* riders' names, normalised
    Group,          \* prefectures, as somebody writes them, with graduation terms
    Option,         \* those of keirin.jp, in its search form and its profiles
    Canon,          \* Canon[g]: g without the suffix that canon_pref strips once
    Snum,           \* the numbers keirin.jp keeps riders under
    Form,           \* class, score and quinella rate
    Racecards,      \* the entrants of a race as a racecard may print them
    Absent,         \* no rider, no card
    Spacing, CardSpacing,       \* MIN_SPACING_SECONDS of either site
    MaxBatch, MaxWindow,        \* MAX_BATCH_ELAPSED_, MAX_SOURCE_WINDOW_SECONDS
    MaxLocate,                  \* MAX_LOCATOR_ELAPSED_SECONDS
    MaxListed,                  \* MAX_SEARCH_RESULTS, MAX_CANDIDATES
    MaxDelay, MaxIdle,          \* bounds: a site's answer, the time between jobs
    MaxJobs, MaxEdits           \* bounds: jobs, changes of keirin.jp

ASSUME CaptureAssumption ==
    /\ Canon \in [Group -> Group] /\ Option \subseteq Group
    /\ Riders \in Nat \ {0} /\ IsFiniteSet(Snum) /\ Absent \notin Snum
    /\ {Spacing, CardSpacing, MaxBatch, MaxWindow, MaxLocate, MaxListed} \subseteq Nat
    /\ {MaxDelay, MaxIdle, MaxJobs, MaxEdits} \subseteq Nat

Cars == 1..Riders

VARIABLES
    site,           \* site[s]: the profile keirin.jp shows for s, or Absent
    edits,          \* how often it has changed
    time,
    card,           \* the racecard captured last, or Absent: when it was asked for,
                    \* and its entrants once they have been read from it
    job,            \* the job that is running or ran last
    jobs            \* jobs begun

captureVars == <<site, edits, time, card, job, jobs>>

Profile == [name: Name, group: Option, number: Snum, form: Form]
Entrant == [name: Name, group: Group, form: Form]
ASSUME RacecardAssumption == Racecards \subseteq [Cars -> Entrant]
Rows == {rows[c] : rows \in Racecards, c \in Cars}

(* What a job has in memory.  History: how often it asked, the least time  *)
(* between two requests, when the last answer came, whether a request was  *)
(* denied, and how the site was when it began.                             *)
NoJob == [kind |-> "none", pc |-> "idle", sheet |-> <<>>, from |-> 0, started |-> 0,
          last |-> Absent, left |-> {}, found |-> <<>>, profiles |-> <<>>,
          asked |-> 0, closest |-> Absent, until |-> 0, denied |-> FALSE, edits |-> 0]

Ended == {"idle", "passed", "fused", "failed", "halted"}

CaptureInit ==
    /\ site \in [Snum -> Profile \cup {Absent}]
    /\ \A s \in Snum : site[s] # Absent => site[s].number = s
    /\ edits = 0 /\ time = 0 /\ card = Absent /\ job = NoJob /\ jobs = 0

(* rider_key: a rider is told by name, converted prefecture and term; the  *)
(* racecard's parser has a rider_key of its own, which does not convert.   *)
Key(e) == <<e.name, Canon[e.group]>>
PrintedKey(e) == <<e.name, e.group>>
-----------------------------------------------------------------------------
(* A request.                                                              *)

Pause == IF job.kind = "card" THEN CardSpacing ELSE Spacing

(* The program sleeps between its requests, and the limiter, which is one  *)
(* for the whole job, looks at the time since the last of them.            *)
SentAtOnce == time       \* slip: nobody sleeps
SentAt == IF job.last = Absent THEN time ELSE time + Pause
LimiterAllows == job.last # Absent => SentAt - job.last >= Pause

Fails == [job EXCEPT !.pc = "failed"]

(* What a request at some time adds to the history.                        *)
Noted(next, at, late) ==
    [next EXCEPT !.asked = @ + 1, !.last = at, !.until = at + late,
                 !.closest = IF job.last = Absent THEN Absent
                             ELSE IF @ = Absent \/ at - job.last < @ THEN at - job.last ELSE @]

(* Slip: every rider has a limiter of its own, and none sleeps.            *)
AskedPerRider(late, next) ==
    /\ late \in 0..MaxDelay /\ time' = time + late /\ job' = Noted(next, time, late)
    /\ UNCHANGED <<site, edits, card, jobs>>

(* _request: asked now, answered late, and handled as next says; too early *)
(* for the limiter, it fails.                                              *)
Asked(late, next) ==
    /\ late \in 0..MaxDelay /\ time' = SentAt + late
    /\ job' = IF LimiterAllows THEN Noted(next, SentAt, late) ELSE Fails
    /\ UNCHANGED <<site, edits, card, jobs>>

(* _get, _submit: 403 and 429 halt the limiter; another status, a redirect,*)
(* an answer that is too large or is no page, or none at all, fails.       *)
Denied(late) ==
    /\ job.pc \notin Ended
    /\ \E pc \in {"halted", "failed"} : Asked(late, [job EXCEPT !.pc = pc, !.denied = TRUE])

(* Slip: the window of a race is counted from its first request.           *)
OverdueSinceStart(t) == t - job.started > MaxBatch \/ t - job.started > MaxWindow

(* _elapsed_guard of the batch.                                            *)
Overdue(t) == t - job.started > MaxBatch \/ t - job.from > MaxWindow

(* _elapsed_guard of a locator.                                            *)
OverBudget(t) == t - job.started > MaxLocate

TooLate(t) == IF job.kind = "batch" THEN Overdue(t) ELSE OverBudget(t)

(* A request whose answer counts only if it comes in time.                 *)
AskedInTime(late, next) == Asked(late, IF TooLate(SentAt + late) THEN Fails ELSE next)
-----------------------------------------------------------------------------
(* The racecard.                                                           *)

NoneRuns == job.pc \in Ended /\ jobs < MaxJobs

Begin(kind, pc, sheet, from) ==
    /\ NoneRuns /\ jobs' = jobs + 1
    /\ job' = [NoJob EXCEPT !.kind = kind, !.pc = pc, !.sheet = sheet, !.from = from,
                            !.started = time, !.edits = edits]
    /\ UNCHANGED <<site, edits, time>>

BeginCard == Begin("card", "discovery", <<>>, 0) /\ UNCHANGED card

(* smoke: the page must link exactly one PDF of the event day.             *)
Discover ==
    /\ job.kind = "card" /\ job.pc = "discovery"
    /\ \E late \in 0..MaxDelay, ofDay \in 0..2 :
          Asked(late, IF ofDay = 1 THEN [job EXCEPT !.pc = "pdf"] ELSE Fails)

(* The source window begins right before the PDF is asked for.  A PDF of   *)
(* another layout, or one with results in it, is refused.                  *)
FetchCard ==
    /\ job.kind = "card" /\ job.pc = "pdf"
    /\ \E late \in 0..MaxDelay :
          \/ Asked(late, Fails)
          \/ /\ LimiterAllows /\ time' = SentAt + late /\ card' = [entrants |-> Absent, from |-> SentAt]
             /\ job' = Noted([job EXCEPT !.pc = "passed"], SentAt, late)
             /\ UNCHANGED <<site, edits, jobs>>
-----------------------------------------------------------------------------
(* The entrants of a race, or the one rider a locator is asked for.        *)

(* _validate_entrants: the batch keeps converted prefectures, and converts *)
(* them again wherever it uses them; and it wants each rider once.         *)
Kept(rows) == [c \in DOMAIN rows |-> [rows[c] EXCEPT !.group = Canon[@]]]
ValidSheet(sheet) == \A c, d \in DOMAIN sheet : Key(sheet[c]) = Key(sheet[d]) => c = d

BeginBatch ==
    /\ NoneRuns /\ card # Absent
    /\ \E rows \in IF card.entrants = Absent THEN Racecards ELSE {card.entrants} :
          /\ card' = [card EXCEPT !.entrants = rows]
          /\ Begin("batch", IF ValidSheet(Kept(rows)) THEN "landing" ELSE "failed",
                   Kept(rows), card.from)

BeginLocator(kind, e) == Begin(kind, "landing", <<e>>, time) /\ UNCHANGED card

GroupsOf(sheet) == {sheet[c].group : c \in DOMAIN sheet}

(* The search page, once for all groups.  v1 keeps no time yet.            *)
Landing ==
    /\ job.pc = "landing"
    /\ LET next == [job EXCEPT !.pc = "search", !.left = GroupsOf(job.sheet),
                               !.found = [c \in DOMAIN job.sheet |-> Absent]]
       IN  \E late \in 0..MaxDelay :
              IF job.kind = "v1" THEN Asked(late, next) ELSE AskedInTime(late, next)

(* _select_pref_value: exactly one option is converted as this one is.     *)
OptionsFor(g) == {o \in Option : Canon[o] = Canon[g]}
Selectable(g) == Cardinality(OptionsFor(g)) = 1

(* Without it, nothing is asked.                                           *)
NoOption(g) ==
    /\ job.pc = "search" /\ g \in job.left /\ ~ Selectable(g)
    /\ job' = Fails
    /\ UNCHANGED <<site, edits, time, card, jobs>>

(* The riders keirin.jp lists for that option and the term.                *)
Listed(g) == {s \in Snum : site[s] # Absent /\ Canon[site[s].group] = Canon[g]}

(* extract_identity_candidates: one page with somebody, and not too many.  *)
Extractable(listed) == listed # {} /\ Cardinality(listed) <= MaxListed

Named(listed, e) == {s \in listed : site[s].name = e.name}

Members(g) == {c \in DOMAIN job.sheet : job.sheet[c].group = g}

(* Slip: of several riders with the name, one is taken.                    *)
AssignedFirst(found, listed, g) ==
    /\ \A c \in Members(g) : Named(listed, job.sheet[c]) # {}
    /\ found = [c \in DOMAIN job.sheet |->
                   IF c \in Members(g) THEN CHOOSE s \in Named(listed, job.sheet[c]) : TRUE
                   ELSE job.found[c]]

(* Every member of the group is listed once, and nobody twice.             *)
Assigned(found, listed, g) ==
    /\ \A c \in Members(g) : Named(listed, job.sheet[c]) = {found[c]}
    /\ \A c \in DOMAIN job.sheet \ Members(g) : found[c] = job.found[c]
    /\ \A c \in Members(g), d \in DOMAIN job.sheet : c # d => found[c] # found[d]

(* The search of one group, of the batch and of the locators v2 and v3.    *)
Search(g) ==
    /\ job.pc = "search" /\ job.kind # "v1" /\ g \in job.left /\ Selectable(g)
    /\ LET listed == Listed(g)
           good == {f \in [DOMAIN job.sheet -> Snum \cup {Absent}] : Assigned(f, listed, g)}
       IN  \E late \in 0..MaxDelay :
              \/ /\ ~ Extractable(listed) \/ good = {}
                 /\ Asked(late, Fails)
              \/ \E f \in good :
                    /\ Extractable(listed)
                    /\ AskedInTime(late,
                          [job EXCEPT !.found = f, !.left = @ \ {g},
                                      !.pc = IF job.left = {g} THEN "profiles" ELSE "search"])

(* parse_identity_profile: the profile is there and has the number.        *)
Parsed(s) == site[s] # Absent /\ site[s].number = s

(* Slip: the profile is taken as that of the rider who was searched.       *)
VerifiedBySearch(s, e) == Parsed(s)

(* verify_identity: and it names the entrant.                              *)
Verified(s, e) == Parsed(s) /\ Key(site[s]) = Key(e)

(* The next entrant's profile: identity, and what it says of the form.     *)
ReadProfile ==
    /\ job.pc = "profiles"
    /\ LET c == Len(job.profiles) + 1
           s == job.found[c]
       IN  \E late \in 0..MaxDelay :
              IF ~ Verified(s, job.sheet[c]) THEN Asked(late, Fails)
              ELSE AskedInTime(late,
                      [job EXCEPT !.profiles = Append(@, site[s]),
                                  !.pc = IF c = Len(job.sheet) THEN "passed" ELSE "profiles"])

(* fuse_race: the batch has the racecard's keys, and both sources the same *)
(* form; a prefecture that is printed otherwise than it is converted, as   *)
(* Hokkaido is, has another key.                                           *)
Fuse ==
    /\ job.kind = "batch" /\ job.pc = "passed"
    /\ job' = [job EXCEPT !.pc =
                  IF \A c \in Cars : /\ Key(job.sheet[c]) = PrintedKey(card.entrants[c])
                                     /\ job.profiles[c].form = job.sheet[c].form
                  THEN "fused" ELSE "failed"]
    /\ UNCHANGED <<site, edits, time, card, jobs>>
-----------------------------------------------------------------------------
(* The first locator reads the profile of everybody the search lists.      *)

SearchAll ==
    /\ job.kind = "v1" /\ job.pc = "search" /\ Selectable(job.sheet[1].group)
    /\ LET listed == Listed(job.sheet[1].group)
       IN  \E late \in 0..MaxDelay :
              Asked(late, IF Extractable(listed)
                          THEN [job EXCEPT !.pc = "candidates", !.left = listed, !.found = {},
                                           !.started = SentAt + late]
                          ELSE Fails)

(* Slip: a profile that cannot be read is not the rider's.                 *)
CandidateSkipped(s) ==
    /\ job.pc = "candidates" /\ s \in job.left
    /\ LET match == job.found \cup {t \in {s} : Verified(t, job.sheet[1])}
           next == [job EXCEPT !.left = @ \ {s}, !.found = match]
           last == IF Cardinality(match) # 1 THEN Fails
                   ELSE [next EXCEPT !.pc = "passed", !.found = <<CHOOSE t \in match : TRUE>>]
       IN  \E late \in 0..MaxDelay : AskedInTime(late, IF next.left = {} THEN last ELSE next)

(* One of them: it matches, or it is somebody else's; when all have been   *)
(* read, exactly one has matched.                                          *)
Candidate(s) ==
    /\ job.pc = "candidates" /\ s \in job.left
    /\ LET match == job.found \cup {t \in {s} : Verified(t, job.sheet[1])}
           next == [job EXCEPT !.left = @ \ {s}, !.found = match]
           last == IF Cardinality(match) # 1 THEN Fails
                   ELSE [next EXCEPT !.pc = "passed", !.found = <<CHOOSE t \in match : TRUE>>]
       IN  \E late \in 0..MaxDelay :
              IF ~ Parsed(s) THEN Asked(late, Fails)
              ELSE AskedInTime(late, IF next.left = {} THEN last ELSE next)
-----------------------------------------------------------------------------
(* keirin.jp shows another profile, or none; time passes between jobs; a   *)
(* job's process dies.  After the last job (MaxJobs) nothing matters.      *)
Edit(s) ==
    /\ edits < MaxEdits /\ edits' = edits + 1 /\ (job.pc \in Ended => NoneRuns)
    /\ \E p \in (Profile \cup {Absent}) \ {site[s]} : site' = [site EXCEPT ![s] = p]
    /\ UNCHANGED <<time, card, job, jobs>>

Rest ==
    /\ NoneRuns /\ card # Absent /\ time < card.from + MaxIdle /\ time' = time + 1
    /\ UNCHANGED <<site, edits, card, job, jobs>>

JobDies ==
    /\ job.pc \notin Ended /\ job' = [job EXCEPT !.pc = "failed", !.denied = TRUE]
    /\ UNCHANGED <<site, edits, time, card, jobs>>

CaptureNext ==
    \/ BeginCard \/ BeginBatch
    \/ NoneRuns /\ \E k \in {"v1", "v2"}, e \in Rows : BeginLocator(k, e)
    \/ Discover \/ FetchCard \/ Landing \/ ReadProfile \/ Fuse \/ SearchAll
    \/ \E g \in Group : NoOption(g) \/ Search(g)
    \/ \E s \in Snum : Candidate(s) \/ Edit(s)
    \/ \E late \in 0..MaxDelay : Denied(late)
    \/ Rest \/ JobDies

CaptureSpec == CaptureInit /\ [][CaptureNext]_captureVars

-----------------------------------------------------------------------------
(* Properties.                                                             *)

CaptureTypeOK ==
    /\ site \in [Snum -> Profile \cup {Absent}] /\ time \in Nat
    /\ edits \in 0..MaxEdits /\ jobs \in 0..MaxJobs /\ job.edits \in 0..edits
    /\ card # Absent => card.entrants \in [Cars -> Entrant] \cup {Absent} /\ card.from \in 0..time
    /\ job.until \in 0..time

LooksUp == job.kind \in {"batch", "v1", "v2"}
Succeeded == LooksUp /\ job.pc \in {"passed", "fused"}

(* No two entrants get one number, and each gets the number of the only    *)
(* rider listed under its name, prefecture and term, if keirin.jp did not  *)
(* change meanwhile: by every locator the same                             *)
(* (PASS_VERIFIED_IDENTITY_LOCATOR_ONLY, QUARANTINE_FAIL_CLOSED).          *)
OneRiderEach ==
    Succeeded =>
        /\ \A c, d \in DOMAIN job.sheet : job.found[c] = job.found[d] => c = d
        /\ job.edits = edits =>
              \A c \in DOMAIN job.sheet :
                  Named(Listed(job.sheet[c].group), job.sheet[c]) = {job.found[c]}

(* However keirin.jp changes between search and profile: what a race is    *)
(* captured with was shown for that number, with the name, the prefecture  *)
(* as it is converted and the term of the entrant, within the window that  *)
(* began when the racecard was asked for; a race is fused only of what     *)
(* racecard and profile both say.                                          *)
CapturedInWindow ==
    Succeeded /\ job.kind = "batch" =>
        \A c \in Cars :
            LET p == job.profiles[c]
            IN  /\ p.number = job.found[c] /\ Key(p) = Key(Kept(card.entrants)[c])
                /\ job.until <= card.from + MaxWindow /\ job.until <= job.started + MaxBatch
                /\ job.pc = "fused" => /\ Key(p) = PrintedKey(card.entrants[c])
                                       /\ p.form = card.entrants[c].form

(* What one job asks a site is spaced, over all riders of a race, and a    *)
(* race takes one search per group and one profile per rider.              *)
AskedSpaced ==
    /\ job.closest # Absent => job.closest >= Pause
    /\ Succeeded /\ job.kind # "v1" =>
          job.asked = 1 + Cardinality(GroupsOf(job.sheet)) + Len(job.sheet)

Findable(e) ==
    /\ Selectable(e.group) /\ Extractable(Listed(e.group))
    /\ \E s \in Listed(e.group) : Named(Listed(e.group), e) = {s} /\ Parsed(s)

(* A race is not lost for nothing: where every request was answered and    *)
(* keirin.jp did not change, it fails only if a prefecture, converted, is  *)
(* no option's or not the racecard's, if an entrant is not listed once, if *)
(* the sources differ or the time is up, and never of its own pace.        *)
LostForReason ==
    LooksUp /\ job.pc = "failed" /\ ~ job.denied /\ job.edits = edits =>
        \/ ~ ValidSheet(job.sheet) \/ \E c \in DOMAIN job.sheet : ~ Findable(job.sheet[c])
        \/ job.kind = "v1" /\ \E s \in Listed(job.sheet[1].group) : ~ Parsed(s)
        \/ TooLate(time)
        \/ /\ Len(job.profiles) = Len(job.sheet)
           /\ \E c \in Cars : \/ job.profiles[c].form # job.sheet[c].form
                              \/ Key(job.sheet[c]) # PrintedKey(card.entrants[c])

(* Capture: entrants are told apart, in time, at the pace that is allowed. *)
CaptureInvariant ==
    CaptureTypeOK /\ OneRiderEach /\ CapturedInWindow /\ AskedSpaced /\ LostForReason
================================================================================
