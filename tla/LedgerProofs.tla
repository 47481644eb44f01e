----------------------------- MODULE LedgerProofs -----------------------------
(***************************************************************************)
(* What is written down one after the other stays one history: the ledger, *)
(* which implements R1Journal, for any number of writers; the manifest of  *)
(* the snapshots, for one collector at a time; the capture of a race from  *)
(* two sites, however they answer and change; and the files of Stage 0,    *)
(* whose receipt is written last and removed with what it cites.           *)
(*                                                                         *)
(* The heart of the ledger's argument: the name of a journal tag holds the *)
(* terminal count besides the sequence, so that the remote's refusal to    *)
(* create a tag twice keeps two commits apart only if commits on one       *)
(* parent agree on their count.  They do, as every entry carries the       *)
(* reconciled count of its parent (NextOf).                                *)
(***************************************************************************)
EXTENDS R1Ledger, SnapshotChain, RaceCapture, PriceRecovery, SequenceTheorems, FiniteSetTheorems,
        TLAPS

KnownCommits == tags \cup {<<>>}

(* n is a commit that the ledger accepts on top of s.                      *)
NextOf(s, n) ==
    /\ Len(s) < MaxSequence
    /\ \E p \in Payload :
           /\ n = Append(s, p)
           /\ p.counted = Reconciled(Top(s))
           /\ p.counted <= p.durable

Types ==
    /\ drift \in BOOLEAN
    /\ tags \subseteq Commit
    /\ branch \in Commit
    /\ pc \in [Writer -> Location]
    /\ seen \in [Writer -> Commit]
    /\ new \in [Writer -> Commit]

(* The journal is a chain from the genesis on.                             *)
Chained == \A t \in tags : \E s \in KnownCommits : NextOf(s, t)
OnePerLength == \A s, t \in tags : Len(s) = Len(t) => s = t
Gapless == \A t \in tags : \A k \in 1..Len(t) : \E s \in tags : Len(s) = k

(* The branch is one entry behind the journal at most.                     *)
BranchBehind == branch \in KnownCommits /\ \A t \in tags : Len(t) <= Len(branch) + 1

(* What a writer builds on has been the head of the branch.                *)
SeenPublished == \A w \in Writer : seen[w] \in KnownCommits /\ Len(seen[w]) <= Len(branch)

InFlight(w) == pc[w] \in {"verify_call", "main1", "tag", "main2", "branch"}

Flying == \A w \in Writer : InFlight(w) => NextOf(seen[w], new[w])
Pushed == \A w \in Writer : pc[w] \in {"main2", "branch"} => new[w] \in tags

IInv == Types /\ Chained /\ OnePerLength /\ Gapless /\ BranchBehind
        /\ SeenPublished /\ Flying /\ Pushed

USE R1LedgerAssumption

-----------------------------------------------------------------------------

(* What Append does to a commit.                                           *)
LEMMA AppendFacts ==
    ASSUME NEW s \in Commit, NEW p \in Payload
    PROVE  /\ Append(s, p) \in Commit
           /\ Len(s) \in Nat /\ Len(Append(s, p)) = Len(s) + 1
           /\ Append(s, p) # <<>>
           /\ Last(Append(s, p)) = p /\ Front(Append(s, p)) = s
  <1> DEFINE a == Append(s, p)
  <1>1. a \in Commit /\ Len(s) \in Nat /\ Len(a) = Len(s) + 1
    BY DEF Commit
  <1>2. a # <<>>
    BY <1>1
  <1>3. Last(a) = p
    BY DEF Last, Commit
  <1>4. Front(a) = s
    <2>1. Front(a) = SubSeq(a, 1, Len(s))
      BY <1>1 DEF Front
    <2>2. SubSeq(a, 1, Len(s)) \in Seq(Payload) /\ Len(SubSeq(a, 1, Len(s))) = Len(s)
      BY <1>1 DEF Commit
    <2>3. \A i \in 1..Len(s) : SubSeq(a, 1, Len(s))[i] = s[i]
      BY <1>1 DEF Commit
    <2> QED
      BY <2>1, <2>2, <2>3, <1>1 DEF Commit
  <1> QED
    BY <1>1, <1>2, <1>3, <1>4

(* The empty commit is the genesis.                                        *)
LEMMA EmptyFacts == <<>> \in Commit /\ Len(<<>>) = 0 /\ genesis \in Payload
  BY DEF Commit, genesis, Payload

(* What stands in the entries of a commit of the chain.                    *)
LEMMA TopFacts ==
    ASSUME NEW c \in Commit
    PROVE  Top(c) \in Payload /\ Reconciled(Top(c)) \in 0..MaxReceipts
  <1>1. Top(c) \in Payload
    <2>1. CASE c = <<>>
      BY <2>1, EmptyFacts DEF Top
    <2>2. CASE c # <<>>
      BY <2>2 DEF Top, Commit, Last
    <2> QED
      BY <2>1, <2>2
  <1> QED
    BY <1>1 DEF Reconciled, Payload

(* A next commit is one longer, and agrees with every other next commit of *)
(* its parent on the name of its tag.                                      *)
LEMMA NextFacts ==
    ASSUME NEW s \in Commit, NEW n, NextOf(s, n)
    PROVE  /\ n \in Commit /\ n # <<>>
           /\ Len(s) \in Nat /\ Len(n) = Len(s) + 1 /\ Len(n) <= MaxSequence
           /\ Front(n) = s
           /\ Top(n) \in Payload /\ Top(n).counted <= Top(n).durable
           /\ TagName(n) = <<Len(s) + 1, Reconciled(Top(s))>>
  <1>1. PICK p \in Payload :
            /\ n = Append(s, p)
            /\ p.counted = Reconciled(Top(s)) /\ p.counted <= p.durable
    BY DEF NextOf
  <1>2. /\ n \in Commit /\ n # <<>> /\ Len(s) \in Nat /\ Len(n) = Len(s) + 1
        /\ Front(n) = s /\ Top(n) = p
    BY <1>1, AppendFacts DEF Top
  <1> QED
    BY <1>1, <1>2 DEF NextOf, TagName

(* Two known commits of one length are one.                                *)
LEMMA KnownByLength ==
    ASSUME Types, Chained, OnePerLength, NEW s \in KnownCommits, NEW t \in KnownCommits, Len(s) = Len(t)
    PROVE  s = t
  <1>1. \A u \in tags : u \in Commit /\ Len(u) \in Nat /\ Len(u) > 0
    <2> SUFFICES ASSUME NEW u \in tags PROVE u \in Commit /\ Len(u) \in Nat /\ Len(u) > 0
      OBVIOUS
    <2>1. PICK v \in KnownCommits : NextOf(v, u)
      BY DEF Chained
    <2>2. v \in Commit
      BY EmptyFacts DEF KnownCommits, Types
    <2> QED
      BY <2>1, <2>2, NextFacts
  <1> QED
    BY <1>1, EmptyFacts DEF KnownCommits, OnePerLength

(* A writer that gets its tag has built on the end of the journal, which   *)
(* is published.                                                           *)
LEMMA TagWinner ==
    ASSUME IInv, NEW w \in Writer, pc[w] = "tag", TagFree(new[w])
    PROVE  /\ NextOf(seen[w], new[w]) /\ seen[w] \in KnownCommits /\ seen[w] \in Commit
           /\ branch = seen[w]
           /\ \A t \in tags : Len(t) \in Nat /\ Len(t) <= Len(seen[w])
  <1>1. NextOf(seen[w], new[w]) /\ seen[w] \in KnownCommits /\ seen[w] \in Commit
    BY DEF IInv, Flying, InFlight, SeenPublished, Types
  <1>2. \A t \in tags : Len(t) \in Nat /\ Len(t) # Len(seen[w]) + 1
    <2> SUFFICES ASSUME NEW t \in tags PROVE Len(t) \in Nat /\ Len(t) # Len(seen[w]) + 1
      OBVIOUS
    <2>1. PICK s \in KnownCommits : NextOf(s, t)
      BY DEF IInv, Chained
    <2>2. s \in Commit
      BY EmptyFacts DEF KnownCommits, Types, IInv
    <2>3. Len(t) \in Nat /\ Len(s) \in Nat /\ Len(t) = Len(s) + 1
      BY <2>1, <2>2, NextFacts
    <2>4. ASSUME Len(t) = Len(seen[w]) + 1 PROVE FALSE
      <3>1. Len(s) = Len(seen[w])
        BY <2>3, <2>4, <1>1, NextFacts
      <3>2. s = seen[w]
        BY <3>1, <1>1, KnownByLength DEF IInv
      <3>3. TagName(t) = TagName(new[w])
        BY <3>2, <2>1, <1>1, NextFacts
      <3> QED
        BY <3>3 DEF TagFree
    <2> QED
      BY <2>3, <2>4
  <1>3. Len(seen[w]) \in Nat
    BY <1>1, NextFacts
  <1>4. \A t \in tags : Len(t) <= Len(seen[w])
    <2> SUFFICES ASSUME NEW t \in tags, ~ (Len(t) <= Len(seen[w])) PROVE FALSE
      OBVIOUS
    <2>1. Len(seen[w]) + 1 \in 1..Len(t)
      BY <1>2, <1>3
    <2>2. PICK s \in tags : Len(s) = Len(seen[w]) + 1
      BY <2>1 DEF IInv, Gapless
    <2> QED
      BY <2>2, <1>2
  <1>5. Len(branch) = Len(seen[w])
    BY <1>2, <1>3, <1>4, EmptyFacts DEF IInv, BranchBehind, SeenPublished, KnownCommits
  <1>6. branch = seen[w]
    BY <1>5, <1>1, KnownByLength DEF IInv, BranchBehind
  <1> QED
    BY <1>1, <1>2, <1>4, <1>6

-----------------------------------------------------------------------------

Tree == Chained /\ OnePerLength /\ Gapless /\ BranchBehind

(* Journal and branch as they were: only the writers' conjuncts are left.  *)
LEMMA TreeFrame ==
    ASSUME IInv, UNCHANGED <<tags, branch>>
    PROVE  Tree' /\ KnownCommits' = KnownCommits
  BY DEF IInv, Tree, Chained, OnePerLength, Gapless, BranchBehind, KnownCommits

(* A step that moves no commit and puts its writer nowhere but where it    *)
(* was in flight before.                                                   *)
LEMMA MoveFrame ==
    ASSUME IInv, NEW w \in Writer, NEW l \in Location, GoTo(w, l),
           UNCHANGED <<tags, branch, seen, new>>, drift' \in BOOLEAN,
           l \in {"verify_call", "main1", "tag", "main2", "branch"} => InFlight(w),
           l \in {"main2", "branch"} => pc[w] \in {"main2", "branch"}
    PROVE  IInv'
  <1>1. Types'
    BY DEF IInv, Types, GoTo
  <1>2. SeenPublished'
    BY DEF IInv, SeenPublished, KnownCommits
  <1>3. Flying'
    BY DEF IInv, Flying, Types, GoTo, InFlight, NextOf
  <1>4. Pushed'
    BY DEF IInv, Pushed, Types, GoTo
  <1> QED
    BY <1>1, <1>2, <1>3, <1>4, TreeFrame DEF IInv, Tree

(* Entries accepted by the ledger are next entries of their parent.        *)
LEMMA EntriesAreNext ==
    ASSUME NEW s \in Commit, s = <<>> \/ Top(s).counted <= Top(s).durable,
           Len(s) < MaxSequence, NEW w \in Writer
    PROVE  LET old == Top(s) IN
           /\ ClaimAllowed(old, ClaimEntry(old, w), w) => NextOf(s, Append(s, ClaimEntry(old, w)))
           /\ \A d \in old.durable .. MaxReceipts :
                  old.durable = old.counted => NextOf(s, Append(s, PersistEntry(old, d)))
           /\ NextOf(s, Append(s, ReleaseEntry(old)))
  <1> DEFINE old == Top(s)
  <1>1. old \in Payload /\ Reconciled(old) \in 0..MaxReceipts
    BY TopFacts
  <1>2. old.counted <= old.durable
    BY EmptyFacts DEF Top, genesis
  <1>3. Reconciled(old) = old.durable
    BY <1>1, <1>2 DEF Reconciled, Payload
  <1> HIDE DEF old
  <1>4. ASSUME ClaimAllowed(old, ClaimEntry(old, w), w)
        PROVE  NextOf(s, Append(s, ClaimEntry(old, w)))
    <2> DEFINE p == ClaimEntry(old, w)
    <2>1. p \in Payload /\ p.counted = Reconciled(old) /\ p.durable = old.durable
      BY <1>1, <1>3 DEF ClaimEntry, Payload
    <2>2. p.counted <= p.durable
      BY <2>1, <1>1, <1>3 DEF Payload
    <2> QED
      BY <2>1, <2>2 DEF NextOf, old
  <1>5. ASSUME NEW d \in old.durable .. MaxReceipts, old.durable = old.counted
        PROVE  NextOf(s, Append(s, PersistEntry(old, d)))
    <2> DEFINE p == PersistEntry(old, d)
    <2>1. /\ p = [old EXCEPT !.durable = d]
          /\ old.durable \in 0..MaxReceipts /\ d \in 0..MaxReceipts /\ old.durable <= d
      BY <1>1 DEF PersistEntry, Payload
    <2>2. p \in Payload /\ p.counted = old.counted /\ p.durable = d
      BY <2>1, <1>1 DEF Payload
    <2>3. p.counted = Reconciled(old) /\ p.counted <= p.durable
      BY <2>1, <2>2, <1>3, <1>5
    <2> QED
      BY <2>2, <2>3 DEF NextOf, old
  <1>6. NextOf(s, Append(s, ReleaseEntry(old)))
    <2> DEFINE p == ReleaseEntry(old)
    <2>1. p \in Payload /\ p.counted = Reconciled(old) /\ p.durable = old.durable
      BY <1>1, <1>3 DEF ReleaseEntry, Payload
    <2>2. p.counted <= p.durable
      BY <2>1, <1>1, <1>3 DEF Payload
    <2> QED
      BY <2>1, <2>2 DEF NextOf, old
  <1> QED
    BY <1>4, <1>5, <1>6 DEF old

(* Every known commit counts no more than is durable.                      *)
LEMMA KnownCounts ==
    ASSUME Types, Chained, NEW c \in KnownCommits
    PROVE  c \in Commit /\ (c = <<>> \/ Top(c).counted <= Top(c).durable)
  <1>1. CASE c = <<>>
    BY <1>1, EmptyFacts
  <1>2. CASE c \in tags
    <2>1. PICK s \in KnownCommits : NextOf(s, c)
      BY <1>2 DEF Chained
    <2>2. s \in Commit
      BY EmptyFacts DEF KnownCommits, Types
    <2> QED
      BY <2>1, <2>2, NextFacts
  <1> QED
    BY <1>1, <1>2 DEF KnownCommits

(* A write puts a next commit in flight.                                   *)
LEMMA WriteStep ==
    ASSUME IInv, NEW w \in Writer, NEW p, Write(w, p), NextOf(seen[w], Append(seen[w], p))
    PROVE  IInv'
  <1>1. Append(seen[w], p) \in Commit
    <2>1. seen[w] \in Commit
      BY DEF IInv, Types
    <2> QED
      BY <2>1, NextFacts
  <1>2. Types'
    BY <1>1 DEF IInv, Types, Write, GoTo, Location, AfterVerify
  <1>3. UNCHANGED <<tags, branch, seen>>
    BY DEF Write
  <1>4. SeenPublished'
    BY <1>3 DEF IInv, SeenPublished, KnownCommits
  <1>5. Flying'
    BY <1>3 DEF IInv, Flying, Types, Write, GoTo, InFlight, NextOf
  <1>6. Pushed'
    BY <1>3 DEF IInv, Pushed, Types, Write, GoTo
  <1> QED
    BY <1>2, <1>3, <1>4, <1>5, <1>6, TreeFrame DEF IInv, Tree

-----------------------------------------------------------------------------
(* The steps.                                                              *)

LEMMA LoadStep == ASSUME IInv, NEW w \in Writer, Load(w) PROVE IInv'
  <1>1. UNCHANGED <<drift, tags, branch, new>> /\ seen' = [seen EXCEPT ![w] = branch]
    BY DEF Load
  <1>2. Types'
    BY <1>1 DEF IInv, Types, Load, GoTo, Location, AfterVerify
  <1>3. SeenPublished'
    <2>1. Len(branch) \in Nat
      BY DEF IInv, Types, Commit
    <2> QED
      BY <1>1, <2>1 DEF IInv, SeenPublished, KnownCommits, Types, BranchBehind
  <1>4. Flying'
    BY <1>1 DEF IInv, Flying, Types, Load, GoTo, InFlight, NextOf
  <1>5. Pushed'
    BY <1>1 DEF IInv, Pushed, Types, Load, GoTo
  <1> QED
    BY <1>1, <1>2, <1>3, <1>4, <1>5, TreeFrame DEF IInv, Tree

LEMMA VerifyStep == ASSUME IInv, NEW w \in Writer, Verify(w) PROVE IInv'
  <1> DEFINE l == IF pc[w] = "verify_done" /\ Top(seen[w]).claim = Nil
                  THEN "out" ELSE AfterVerify[pc[w]]
  <1>1. pc[w] \in {"verify_load", "verify_call", "verify_done"}
    BY DEF Verify, AfterVerify
  <1>2. l \in {"out", "loaded", "main1", "holding"} /\ (l = "main1" => pc[w] = "verify_call")
    <2>1. AfterVerify["verify_load"] = "loaded" /\ AfterVerify["verify_call"] = "main1"
          /\ AfterVerify["verify_done"] = "holding"
      BY DEF AfterVerify
    <2>2. l = "out" \/ l = AfterVerify[pc[w]]
      OBVIOUS
    <2> HIDE DEF l
    <2> QED
      BY <1>1, <2>1, <2>2
  <1>3. GoTo(w, l) /\ UNCHANGED <<drift, tags, branch, seen, new>>
    BY DEF Verify
  <1>4. drift' \in BOOLEAN
    BY <1>3 DEF IInv, Types
  <1> HIDE DEF l
  <1> QED
    BY <1>2, <1>3, <1>4, MoveFrame DEF Location, InFlight

LEMMA EntryStep ==
    ASSUME IInv, NEW w \in Writer,
           \/ ClaimInvocation(w)
           \/ \E d \in Top(seen[w]).durable .. MaxReceipts : PersistR1State(w, d)
           \/ ReleaseInvocation(w)
    PROVE  IInv'
  <1>1. seen[w] \in Commit /\ (seen[w] = <<>> \/ Top(seen[w]).counted <= Top(seen[w]).durable)
    BY KnownCounts DEF IInv, SeenPublished
  <1>2. CASE ClaimInvocation(w)
    BY <1>1, <1>2, EntriesAreNext, WriteStep DEF ClaimInvocation, Write
  <1>3. CASE \E d \in Top(seen[w]).durable .. MaxReceipts : PersistR1State(w, d)
    BY <1>1, <1>3, EntriesAreNext, WriteStep DEF PersistR1State, Write
  <1>4. CASE ReleaseInvocation(w)
    BY <1>1, <1>4, EntriesAreNext, WriteStep DEF ReleaseInvocation, Write
  <1> QED
    BY <1>2, <1>3, <1>4

LEMMA CheckMainStep == ASSUME IInv, NEW w \in Writer, CheckMain(w) PROVE IInv'
  <1>1. UNCHANGED <<drift, tags, branch, seen, new>> /\ drift' \in BOOLEAN
    BY DEF CheckMain, IInv, Types
  <1>2. CASE pc[w] = "main1" /\ GoTo(w, "tag")
    BY <1>1, <1>2, MoveFrame DEF Location, InFlight
  <1>3. CASE pc[w] = "main2" /\ GoTo(w, "branch")
    BY <1>1, <1>3, MoveFrame DEF Location, InFlight
  <1> QED
    BY <1>2, <1>3 DEF CheckMain

LEMMA StopStep == ASSUME IInv, NEW w \in Writer, Stop(w) PROVE IInv'
  <1>1. GoTo(w, "out") /\ UNCHANGED <<drift, tags, branch, seen, new>> /\ drift' \in BOOLEAN
    BY DEF Stop, IInv, Types
  <1> QED
    BY <1>1, MoveFrame DEF Location

LEMMA PushTagStep == ASSUME IInv, NEW w \in Writer, PushTag(w) PROVE IInv'
  <1> DEFINE s == seen[w]
             n == new[w]
  <1>1. /\ NextOf(s, n) /\ s \in KnownCommits /\ s \in Commit /\ branch = s
        /\ \A t \in tags : Len(t) \in Nat /\ Len(t) <= Len(s)
    BY TagWinner DEF PushTag
  <1>2. n \in Commit /\ n # <<>> /\ Len(s) \in Nat /\ Len(n) = Len(s) + 1
    BY <1>1, NextFacts
  <1>3. tags' = tags \cup {n} /\ UNCHANGED <<drift, branch, seen, new>>
    BY DEF PushTag
  <1> HIDE DEF n, s
  <1>4. Types'
    BY <1>2, <1>3 DEF IInv, Types, PushTag, GoTo, Location
  <1>5. KnownCommits' = KnownCommits \cup {n}
    BY <1>3 DEF KnownCommits
  <1>6. Chained'
    BY <1>1, <1>3, <1>5 DEF IInv, Chained, NextOf
  <1>7. OnePerLength'
    BY <1>1, <1>2, <1>3 DEF IInv, OnePerLength
  <1>8. Gapless'
    <2> SUFFICES ASSUME NEW t \in tags', NEW k \in 1..Len(t)
                 PROVE  \E u \in tags' : Len(u) = k
      BY DEF Gapless
    <2>1. CASE t \in tags
      BY <2>1, <1>3 DEF IInv, Gapless
    <2>2. CASE t = n /\ k = Len(n)
      BY <2>2, <1>3
    <2>3. CASE t = n /\ k # Len(n)
      <3>1. k \in 1..Len(s)
        BY <2>3, <1>2
      <3>2. s \in tags
        BY <3>1, <1>1, EmptyFacts DEF KnownCommits
      <3> QED
        BY <3>1, <3>2, <1>3 DEF IInv, Gapless
    <2> QED
      BY <2>1, <2>2, <2>3, <1>3
  <1>9. BranchBehind'
    BY <1>1, <1>2, <1>3, <1>5 DEF IInv, BranchBehind
  <1>10. SeenPublished'
    BY <1>3, <1>5 DEF IInv, SeenPublished
  <1>11. Flying'
    BY <1>3 DEF IInv, Flying, Types, PushTag, GoTo, InFlight, NextOf
  <1>12. Pushed'
    BY <1>3 DEF IInv, Pushed, Types, PushTag, GoTo, n
  <1> QED
    BY <1>4, <1>6, <1>7, <1>8, <1>9, <1>10, <1>11, <1>12 DEF IInv

LEMMA PushBranchStep == ASSUME IInv, NEW w \in Writer, PushBranch(w) PROVE IInv'
  <1> DEFINE n == new[w]
  <1>1. branch = seen[w] /\ branch' = n /\ UNCHANGED <<drift, tags, seen, new>>
    BY DEF PushBranch
  <1>2. n \in tags /\ NextOf(branch, n) /\ branch \in Commit
    BY <1>1 DEF IInv, Pushed, Flying, InFlight, PushBranch, Types
  <1>3. n \in Commit /\ Len(branch) \in Nat /\ Len(n) = Len(branch) + 1
    BY <1>2, NextFacts
  <1> HIDE DEF n
  <1>4. Types'
    BY <1>1, <1>3 DEF IInv, Types, PushBranch, GoTo, Location
  <1>5. KnownCommits' = KnownCommits
    BY <1>1 DEF KnownCommits
  <1>6. Chained' /\ OnePerLength' /\ Gapless'
    BY <1>1, <1>5 DEF IInv, Chained, OnePerLength, Gapless, NextOf
  <1>7. \A t \in tags : Len(t) \in Nat
    BY DEF IInv, Types, Commit
  <1>8. BranchBehind'
    BY <1>1, <1>2, <1>3, <1>5, <1>7 DEF IInv, BranchBehind, KnownCommits
  <1>9. \A c \in KnownCommits : Len(c) \in Nat
    BY <1>7, EmptyFacts DEF KnownCommits
  <1>10. SeenPublished'
    BY <1>1, <1>3, <1>5, <1>9 DEF IInv, SeenPublished
  <1>11. Flying'
    BY <1>1 DEF IInv, Flying, Types, PushBranch, GoTo, InFlight, NextOf
  <1>12. Pushed'
    BY <1>1 DEF IInv, Pushed, Types, PushBranch, GoTo
  <1> QED
    BY <1>4, <1>6, <1>8, <1>10, <1>11, <1>12 DEF IInv

LEMMA ReloadStep == ASSUME IInv, NEW w \in Writer, Reload(w) PROVE IInv'
  <1>1. branch = new[w] /\ seen' = [seen EXCEPT ![w] = branch]
        /\ UNCHANGED <<drift, tags, branch, new>>
    BY DEF Reload
  <1>2. Types'
    BY <1>1 DEF IInv, Types, Reload, GoTo, Location, AfterVerify
  <1>3. SeenPublished'
    <2>1. Len(branch) \in Nat
      BY DEF IInv, Types, Commit
    <2> QED
      BY <1>1, <2>1 DEF IInv, SeenPublished, KnownCommits, Types, BranchBehind
  <1>4. Flying'
    BY <1>1 DEF IInv, Flying, Types, Reload, GoTo, InFlight, NextOf
  <1>5. Pushed'
    BY <1>1 DEF IInv, Pushed, Types, Reload, GoTo
  <1> QED
    BY <1>1, <1>2, <1>3, <1>4, <1>5, TreeFrame DEF IInv, Tree

LEMMA InitIInv == Init => IInv
  <1> SUFFICES ASSUME Init PROVE IInv
    OBVIOUS
  <1>1. Types
    BY EmptyFacts DEF Init, Types, Location
  <1>2. Chained /\ OnePerLength /\ Gapless /\ BranchBehind
    BY DEF Init, Chained, OnePerLength, Gapless, BranchBehind, KnownCommits
  <1>3. SeenPublished
    BY EmptyFacts DEF Init, SeenPublished, KnownCommits
  <1>4. Flying /\ Pushed
    BY DEF Init, Flying, Pushed, InFlight
  <1> QED
    BY <1>1, <1>2, <1>3, <1>4 DEF IInv

LEMMA DriftStep == ASSUME IInv, Drift PROVE IInv'
  BY TreeFrame DEF Drift, IInv, Types, SeenPublished, KnownCommits, Flying, Pushed, InFlight, NextOf, Tree

LEMMA StutterStep == ASSUME IInv, UNCHANGED vars PROVE IInv'
  BY TreeFrame DEF vars, IInv, Types, SeenPublished, KnownCommits, Flying, Pushed, InFlight, NextOf, Tree

LEMMA NextIInv == IInv /\ [Next]_vars => IInv'
  <1> SUFFICES ASSUME IInv, [Next]_vars PROVE IInv'
    OBVIOUS
  <1>1. ASSUME NEW w \in Writer, WriterStep(w) PROVE IInv'
    BY <1>1, LoadStep, VerifyStep, EntryStep, CheckMainStep, PushTagStep, PushBranchStep,
       ReloadStep, StopStep DEF WriterStep
  <1> QED
    BY <1>1, DriftStep, StutterStep DEF Next

(* The chain and everything the writers know of it stay as IInv says.      *)
THEOREM LedgerInductive == Spec => []IInv
  BY InitIInv, NextIInv, PTL DEF Spec

-----------------------------------------------------------------------------

(* Every value has its type, no entry counts more than is durable, and no  *)
(* commit is beyond MAX_SEQUENCE.                                          *)
THEOREM LedgerTypeCorrect == Spec => []TypeOK
  <1>1. IInv => TypeOK
    <2> SUFFICES ASSUME IInv, NEW t \in tags
                 PROVE  Len(t) <= MaxSequence /\ Top(t).counted <= Top(t).durable
      BY DEF IInv, Types, TypeOK
    <2>1. PICK s \in KnownCommits : NextOf(s, t)
      BY DEF IInv, Chained
    <2>2. s \in Commit
      BY EmptyFacts DEF IInv, Types, KnownCommits
    <2> QED
      BY <2>1, <2>2, NextFacts
  <1> QED
    BY <1>1, LedgerInductive, PTL

(* Racing pushes leave one commit per sequence in the journal, on top of   *)
(* the one before it.                                                      *)
THEOREM JournalStaysLinear == Spec => []JournalLinear
  <1>1. IInv => JournalLinear
    <2> SUFFICES ASSUME IInv, NEW t \in tags, Len(t) > 1 PROVE Front(t) \in tags
      BY DEF IInv, OnePerLength, JournalLinear
    <2>1. PICK s \in KnownCommits : NextOf(s, t)
      BY DEF IInv, Chained
    <2>2. s \in Commit
      BY EmptyFacts DEF IInv, Types, KnownCommits
    <2>3. Front(t) = s /\ Len(t) = Len(s) + 1 /\ Len(s) \in Nat
      BY <2>1, <2>2, NextFacts
    <2>4. s # <<>>
      BY <2>3, EmptyFacts
    <2> QED
      BY <2>3, <2>4 DEF KnownCommits
  <1> QED
    BY <1>1, LedgerInductive, PTL

(* A journal left ahead of the branch stops every writer for good.         *)
THEOREM LedgerFailsClosed == Spec => FailClosed
  <1>1. IInv /\ [Next]_vars => [Stranded => Stranded' /\ UNCHANGED <<tags, branch>>]_vars
    <2> SUFFICES ASSUME IInv, [Next]_vars, Stranded
                 PROVE  Stranded' /\ UNCHANGED <<tags, branch>>
      OBVIOUS
    <2>1. PICK t \in tags :
              /\ Len(t) > Len(branch)
              /\ \A w \in Writer : pc[w] \in {"main2", "branch"} => new[w] # t
      BY DEF Stranded
    <2>2. Len(branch) \in Nat /\ Len(t) = Len(branch) + 1
      BY <2>1 DEF IInv, Types, Commit, BranchBehind
    <2>3. ASSUME NEW w \in Writer, PushTag(w) PROVE FALSE
      BY <2>1, <2>2, <2>3, TagWinner DEF PushTag
    <2>4. ASSUME NEW w \in Writer, PushBranch(w) PROVE FALSE
      <3>1. branch = seen[w] /\ new[w] \in tags /\ NextOf(branch, new[w]) /\ branch \in Commit
        BY <2>4 DEF PushBranch, IInv, Pushed, Flying, InFlight, Types
      <3>2. Len(new[w]) = Len(branch) + 1
        BY <3>1, NextFacts
      <3>3. new[w] = t
        BY <3>1, <3>2, <2>2 DEF IInv, OnePerLength
      <3> QED
        BY <3>3, <2>1, <2>4 DEF PushBranch
    <2>5. ASSUME NEW w \in Writer, WriterStep(w)
          PROVE  /\ UNCHANGED <<tags, branch>>
                 /\ \A v \in Writer : pc'[v] \in {"main2", "branch"} => new'[v] # t
      <3>1. CASE Load(w) \/ Verify(w) \/ Reload(w) \/ Stop(w) \/ CheckMain(w)
        <4>1. UNCHANGED <<tags, branch, new>>
          BY <3>1 DEF Load, Verify, Reload, Stop, CheckMain
        <4>2. \A v \in Writer : pc'[v] \in {"main2", "branch"} => pc[v] \in {"main2", "branch"}
          BY <3>1 DEF Load, Verify, Reload, Stop, CheckMain, GoTo, IInv, Types, AfterVerify
        <4> QED
          BY <4>1, <4>2, <2>1
      <3>2. CASE \/ ClaimInvocation(w)
                 \/ \E d \in Top(seen[w]).durable .. MaxReceipts : PersistR1State(w, d)
                 \/ ReleaseInvocation(w)
        <4>1. PICK p : Write(w, p)
          BY <3>2 DEF ClaimInvocation, PersistR1State, ReleaseInvocation
        <4>2. /\ UNCHANGED <<tags, branch>>
              /\ new' = [new EXCEPT ![w] = Append(seen[w], p)]
              /\ pc' = [pc EXCEPT ![w] = "verify_call"]
          BY <4>1 DEF Write, GoTo
        <4> QED
          BY <4>2, <2>1 DEF IInv, Types
      <3> QED
        BY <3>1, <3>2, <2>3, <2>4, <2>5 DEF WriterStep
    <2>6. CASE Drift \/ UNCHANGED vars
      BY <2>1, <2>6 DEF Stranded, Drift, vars
    <2>7. CASE \E w \in Writer : WriterStep(w)
      BY <2>1, <2>5, <2>7 DEF Stranded
    <2> QED
      BY <2>6, <2>7 DEF Next
  <1> QED
    BY <1>1, LedgerInductive, PTL DEF Spec, FailClosed

(* Once main has moved and the pushes checked before have landed, the      *)
(* ledger is not written again.                                            *)
THEOREM LedgerStopsOnDrift == Spec => DriftStops
  <1>1. IInv /\ [Next]_vars => [Drifted => Drifted' /\ UNCHANGED <<tags, branch>>]_vars
    <2> SUFFICES ASSUME IInv, [Next]_vars, Drifted
                 PROVE  Drifted' /\ UNCHANGED <<tags, branch>>
      OBVIOUS
    <2>1. CASE UNCHANGED vars \/ Drift
      BY <2>1 DEF Drifted, vars, Drift
    <2>2. ASSUME NEW w \in Writer, WriterStep(w)
          PROVE  Drifted' /\ UNCHANGED <<tags, branch>>
      <3>1. CASE Verify(w) \/ Stop(w)
        <4>1. UNCHANGED <<drift, tags, branch>>
          BY <3>1 DEF Verify, Stop
        <4>2. \A v \in Writer : pc'[v] \in {"tag", "branch"} => pc[v] \in {"tag", "branch"}
          BY <3>1 DEF Verify, Stop, GoTo, IInv, Types, AfterVerify
        <4> QED
          BY <4>1, <4>2 DEF Drifted
      <3>2. CASE Load(w) \/ Reload(w) \/ CheckMain(w) \/ PushTag(w) \/ PushBranch(w)
        BY <3>2 DEF Drifted, Load, Reload, CheckMain, PushTag, PushBranch
      <3>3. CASE \E p : Write(w, p)
        BY <3>3 DEF Drifted, Write
      <3>4. CASE \/ ClaimInvocation(w) \/ ReleaseInvocation(w)
                 \/ \E d \in Top(seen[w]).durable .. MaxReceipts : PersistR1State(w, d)
        BY <3>3, <3>4 DEF ClaimInvocation, PersistR1State, ReleaseInvocation
      <3> QED
        BY <2>2, <3>1, <3>2, <3>3, <3>4 DEF WriterStep
    <2> QED
      BY <2>1, <2>2 DEF Next
  <1> QED
    BY <1>1, LedgerInductive, PTL DEF Spec, DriftStops

-----------------------------------------------------------------------------
(* Refinement.                                                             *)

(* The journal's longest commit is the one every other is shorter than.    *)
LEMMA LongestIs ==
    ASSUME IInv, NEW c \in KnownCommits, \A t \in tags : Len(t) <= Len(c)
    PROVE  Longest = c
  <1>1. PICK l \in KnownCommits : l = Longest /\ \A t \in tags : Len(t) <= Len(l)
    BY DEF Longest, KnownCommits
  <1>2. \A t \in KnownCommits : Len(t) \in Nat
    BY EmptyFacts DEF KnownCommits, IInv, Types, Commit
  <1>3. Len(l) = Len(c)
    BY <1>1, <1>2, EmptyFacts DEF KnownCommits
  <1> QED
    BY <1>1, <1>3, KnownByLength DEF IInv

(* A step is a step of the journal, or leaves it alone.                    *)
LEMMA StepRefines ==
    ASSUME IInv, IInv', [Next]_vars
    PROVE  [Journal!Next]_<<Longest, Len(branch)>>
  <1>1. CASE UNCHANGED <<tags, branch>>
    BY <1>1 DEF Longest
  <1>2. ASSUME NEW w \in Writer, PushTag(w) PROVE Journal!Extend
    <2> DEFINE s == seen[w]
               n == new[w]
    <2>1. /\ NextOf(s, n) /\ s \in KnownCommits /\ s \in Commit /\ branch = s
          /\ \A t \in tags : Len(t) \in Nat /\ Len(t) <= Len(s)
      BY <1>2, TagWinner DEF PushTag
    <2>2. PICK p \in Payload : n = Append(s, p)
      BY <2>1 DEF NextOf
    <2>3. Len(s) \in Nat /\ Len(n) = Len(s) + 1
      BY <2>1, NextFacts
    <2>4. Longest = s
      BY <2>1, LongestIs
    <2>5. tags' = tags \cup {n} /\ branch' = branch
      BY <1>2 DEF PushTag
    <2> HIDE DEF s, n
    <2>6. n \in tags' /\ \A t \in tags' : Len(t) <= Len(n)
      BY <2>1, <2>3, <2>5
    <2>7. Longest' = n
      <3>1. n \in tags' \cup {<<>>} /\ \A t \in tags' \cup {<<>>} : Len(t) \in Nat
        BY <2>6, EmptyFacts DEF IInv, Types, Commit
      <3>2. PICK l \in tags' \cup {<<>>} : l = Longest' /\ \A t \in tags' : Len(t) <= Len(l)
        BY <2>6 DEF Longest
      <3>3. Len(l) = Len(n)
        BY <3>1, <3>2, <2>6, <2>3, EmptyFacts
      <3>4. l \in tags'
        BY <3>2, <3>3, <2>3, EmptyFacts
      <3> QED
        BY <3>2, <3>3, <3>4, <2>6 DEF IInv, OnePerLength
    <2> QED
      BY <2>1, <2>2, <2>4, <2>5, <2>7 DEF Journal!Extend
  <1>3. ASSUME NEW w \in Writer, PushBranch(w) PROVE Journal!Publish
    <2>1. branch = seen[w] /\ branch' = new[w] /\ tags' = tags
      BY <1>3 DEF PushBranch
    <2>2. new[w] \in tags /\ NextOf(branch, new[w]) /\ branch \in Commit
      BY <1>3, <2>1 DEF IInv, Pushed, Flying, InFlight, PushBranch, Types
    <2>3. Len(branch) \in Nat /\ Len(new[w]) = Len(branch) + 1
      BY <2>2, NextFacts
    <2>4. Longest = new[w]
      BY <2>2, <2>3, LongestIs DEF IInv, BranchBehind, KnownCommits
    <2>5. Longest' = Longest
      BY <2>1 DEF Longest
    <2> QED
      BY <2>1, <2>3, <2>4, <2>5 DEF Journal!Publish
  <1>4. ASSUME NEW w \in Writer, WriterStep(w), ~ PushTag(w), ~ PushBranch(w)
        PROVE  UNCHANGED <<tags, branch>>
    BY <1>4 DEF WriterStep, Load, Verify, Reload, Stop, CheckMain,
       ClaimInvocation, PersistR1State, ReleaseInvocation, Write
  <1> QED
    BY <1>1, <1>2, <1>3, <1>4 DEF Next, Drift, vars, Journal!Next

(* The ledger implements one history that is only ever extended, by whoever *)
(* pushes the next tag first, and published entry by entry.                 *)
THEOREM LedgerImplementsJournal == Spec => ImplementsJournal
  <1>1. Init => Journal!Init
    <2> SUFFICES ASSUME Init PROVE Longest = <<>> /\ Len(branch) = 0
      BY DEF Journal!Init
    <2> QED
      BY InitIInv, LongestIs, EmptyFacts DEF Init, KnownCommits
  <1>2. IInv /\ IInv' /\ [Next]_vars => [Journal!Next]_<<Longest, Len(branch)>>
    BY StepRefines
  <1> QED
    BY <1>1, <1>2, LedgerInductive, PTL DEF Spec, ImplementsJournal, Journal!Spec

(* The ledger's values have their types, and its journal is linear.        *)
THEOREM LedgerInvariantHolds == Spec => []LedgerInvariant
  BY LedgerTypeCorrect, JournalStaysLinear, PTL DEF LedgerInvariant

(* Neither past a stranded entry nor after a drift is the ledger written.  *)
THEOREM LedgerStopsForGood == Spec => LedgerStops
  BY LedgerFailsClosed, LedgerStopsOnDrift DEF LedgerStops
-----------------------------------------------------------------------------
(* The manifest of the snapshots, for one collector at a time: two of them *)
(* may append entries with one index.                                      *)

OneCollector == \A p, q \in Collector : p = q

Pair  == Race \X Content \X BOOLEAN
Line == [index : Nat, race : Race, snapshot : Content, hex : BOOLEAN, prev : Seq(Pair)]
Working == {"create", "fill", "digest", "read", "append", "verify"}

SnapShape ==
    /\ files \in [Race -> Content \cup {None, "empty"}]
    /\ chain \in Seq(Line)
    /\ passed \subseteq Race /\ started \in 0..MaxStart
    /\ at \in [Collector -> [step : Working \cup {"idle"}, race : Race \cup {None},
                             content : Content \cup {None}, hex : BOOLEAN, entry : Line \cup {None}]]

(* Where the file of a collector's race is, and what it will append.       *)
Placed(d) ==
    /\ d.step \in Working => d.race \in Race /\ d.content \in Content
    /\ d.step \in {"create", "fill"} => files[d.race] \in {None, "empty"}
    /\ d.step \in {"digest", "read", "append", "verify"} => files[d.race] = d.content
    /\ d.step = "append" => /\ d.entry = NextEntry(d.race, d.content, d.hex) /\ ~Known(d.race)
                            /\ Verifies(chain)
    /\ d.step = "verify" => Known(d.race)

SnapInv == /\ SnapShape /\ ChainVerifies /\ ChainBindsFiles
           /\ \A p \in Collector : Placed(at[p])

LEMMA LinksFacts ==
    ASSUME NEW s \in Seq(Line)
    PROVE  /\ Links(s) \in Seq(Pair) /\ Len(Links(s)) = Len(s)
           /\ \A i \in 1..Len(s) : Links(s)[i] = <<s[i].race, s[i].snapshot, s[i].hex>>
  <1>1. DOMAIN s = 1..Len(s) /\ Len(s) \in Nat /\ \A i \in 1..Len(s) : s[i] \in Line
    OBVIOUS
  <1>2. Links(s) = [i \in 1..Len(s) |-> <<s[i].race, s[i].snapshot, s[i].hex>>]
    BY <1>1 DEF Links
  <1>3. \A i \in 1..Len(s) : <<s[i].race, s[i].snapshot, s[i].hex>> \in Pair
    BY <1>1 DEF Pair, Line
  <1> PICK l : l = Links(s)
    OBVIOUS
  <1>4. l \in [1..Len(s) -> Pair]
    BY <1>2, <1>3
  <1>5. l \in Seq(Pair) /\ Len(l) = Len(s)
    BY <1>1, <1>4, IsASeq
  <1> QED
    BY <1>2, <1>5

(* An entry more leaves the links before it, and is linked to all of them. *)
LEMMA LinksOfMore ==
    ASSUME NEW s \in Seq(Line), NEW e \in Line
    PROVE  \A k \in 0..Len(s) :
               SubSeq(Links(Append(s, e)), 1, k) = SubSeq(Links(s), 1, k)
  <1>1. Append(s, e) \in Seq(Line) /\ Len(Append(s, e)) = Len(s) + 1 /\ Len(s) \in Nat
        /\ \A i \in 1..Len(s) : Append(s, e)[i] = s[i]
    BY AppendProperties
  <1>2. TAKE k \in 0..Len(s)
  <1> DEFINE a == Links(Append(s, e))
  <1> DEFINE b == Links(s)
  <1>3. /\ a \in Seq(Pair) /\ Len(a) = Len(s) + 1
        /\ \A i \in 1..Len(s) + 1 : a[i] = <<Append(s, e)[i].race, Append(s, e)[i].snapshot, Append(s, e)[i].hex>>
    BY <1>1, LinksFacts
  <1>4. /\ b \in Seq(Pair) /\ Len(b) = Len(s)
        /\ \A i \in 1..Len(s) : b[i] = <<s[i].race, s[i].snapshot, s[i].hex>>
    BY LinksFacts
  <1> HIDE DEF a, b
  <1>5. \A i \in 1..k : a[i] = b[i]
    <2> TAKE i \in 1..k
    <2>1. i \in 1..Len(s) /\ i \in 1..Len(s) + 1
      BY <1>1
    <2>2. a[i] = <<s[i].race, s[i].snapshot, s[i].hex>> /\ b[i] = <<s[i].race, s[i].snapshot, s[i].hex>>
      BY <1>1, <1>3, <1>4, <2>1
    <2> QED
      BY <2>2
  <1>6. /\ SubSeq(a, 1, k) \in Seq(Pair) /\ Len(SubSeq(a, 1, k)) = k
        /\ \A i \in 1..k : SubSeq(a, 1, k)[i] = a[i]
    BY <1>1, <1>3
  <1>7. /\ SubSeq(b, 1, k) \in Seq(Pair) /\ Len(SubSeq(b, 1, k)) = k
        /\ \A i \in 1..k : SubSeq(b, 1, k)[i] = b[i]
    BY <1>1, <1>4
  <1>8. SubSeq(a, 1, k) = SubSeq(b, 1, k)
    BY <1>5, <1>6, <1>7, SeqEqual
  <1> QED
    BY <1>8 DEF a, b

LEMMA NextIsLinked ==
    ASSUME NEW s \in Seq(Line), Linked(s), NEW e \in Line,
           e.index = Len(s) + 1, e.prev = Links(s), \A i \in DOMAIN s : s[i].race # e.race
    PROVE  Linked(Append(s, e))
  <1> DEFINE t == Append(s, e)
  <1>1. /\ Len(s) \in Nat /\ DOMAIN s = 1..Len(s) /\ DOMAIN t = 1..(Len(s) + 1)
        /\ \A i \in 1..Len(s) : t[i] = s[i]
        /\ t[Len(s) + 1] = e
    BY AppendProperties
  <1>2. \A i \in 1..Len(s) : SubSeq(Links(t), 1, i - 1) = SubSeq(Links(s), 1, i - 1)
    BY <1>1, LinksOfMore
  <1>3. SubSeq(Links(t), 1, Len(s)) = Links(s)
    <2>1. SubSeq(Links(t), 1, Len(s)) = SubSeq(Links(s), 1, Len(s))
      BY <1>1, LinksOfMore
    <2>2. SubSeq(Links(s), 1, Len(Links(s))) = Links(s)
      BY LinksFacts, SubSeqFull
    <2> QED
      BY <2>1, <2>2, LinksFacts
  <1> HIDE DEF t
  <1>4. \A i \in DOMAIN t : t[i].index = i /\ t[i].prev = SubSeq(Links(t), 1, i - 1)
    <2> TAKE i \in DOMAIN t
    <2>1. CASE i \in 1..Len(s)
      BY <1>1, <1>2, <2>1 DEF Linked
    <2>2. CASE i = Len(s) + 1
      <3>1. i - 1 = Len(s)
        BY <2>2, <1>1
      <3> QED
        BY <1>1, <1>3, <2>2, <3>1
    <2> QED
      BY <1>1, <2>1, <2>2
  <1>5. \A i, j \in DOMAIN t : t[i].race = t[j].race => i = j
    <2> TAKE i, j \in DOMAIN t
    <2>1. CASE i \in 1..Len(s) /\ j \in 1..Len(s)
      BY <1>1, <2>1 DEF Linked
    <2>2. CASE i = Len(s) + 1 /\ j \in 1..Len(s)
      BY <1>1, <2>2
    <2>3. CASE i \in 1..Len(s) /\ j = Len(s) + 1
      BY <1>1, <2>3
    <2> QED
      BY <1>1, <2>1, <2>2, <2>3
  <1> QED
    BY <1>4, <1>5 DEF Linked, t

LEMMA SnapInitial == SnapInit => SnapInv
  <1> SUFFICES ASSUME SnapInit PROVE SnapInv
    OBVIOUS
  <1>1. chain \in Seq(Line) /\ DOMAIN chain = {}
    BY DEF SnapInit
  <1>2. SnapShape
    BY <1>1, SnapshotAssumption DEF SnapInit, SnapShape, Idle
  <1>3. ChainVerifies /\ ChainBindsFiles
    BY <1>1 DEF SnapInit, ChainVerifies, Linked, ChainBindsFiles
  <1>4. \A p \in Collector : Placed(at[p])
    BY DEF SnapInit, Placed, Idle, Working
  <1> QED
    BY <1>2, <1>3, <1>4 DEF SnapInv

(* With one collector nobody else has to be placed.                        *)
LEMMA OnlyOne ==
    ASSUME OneCollector, NEW p \in Collector, SnapShape', Placed(at[p])'
    PROVE  \A q \in Collector : Placed(at[q])'
  BY DEF OneCollector

LEMMA PlaceKept ==
    ASSUME SnapInv, OneCollector, NEW p \in Collector, UNCHANGED <<files, chain>>,
           NEW d, at' = [at EXCEPT ![p] = d],
           d \in [step : Working \cup {"idle"}, race : Race \cup {None},
                  content : Content \cup {None}, hex : BOOLEAN, entry : Line \cup {None}],
           Placed(d), passed' \subseteq Race, started' \in 0..MaxStart,
           \A r \in passed' : \E i \in DOMAIN chain : chain[i].race = r /\ chain[i].hex
    PROVE  SnapInv'
  <1>1. SnapShape'
    BY DEF SnapInv, SnapShape
  <1>2. at'[p] = d
    BY DEF SnapInv, SnapShape
  <1>3. Placed(at[p])'
    BY <1>2 DEF Placed, NextEntry, Known
  <1>4. ChainVerifies' /\ ChainBindsFiles'
    BY DEF SnapInv, ChainVerifies, ChainBindsFiles
  <1> QED
    BY <1>1, <1>3, <1>4, OnlyOne DEF SnapInv

Task == [step : Working \cup {"idle"}, race : Race \cup {None},
         content : Content \cup {None}, hex : BOOLEAN, entry : Line \cup {None}]

LEMMA ChainLines == ASSUME SnapShape PROVE \A i \in DOMAIN chain : chain[i] \in Line
  <1>1. chain \in Seq(Line)
    BY DEF SnapShape
  <1> QED
    BY <1>1

LEMMA NextIsLine ==
    ASSUME SnapShape, NEW r \in Race, NEW c \in Content, NEW x \in BOOLEAN
    PROVE  NextEntry(r, c, x) \in Line
  <1>1. chain \in Seq(Line) /\ Len(chain) + 1 \in Nat
    BY DEF SnapShape
  <1>2. PICK l : l = Links(chain)
    OBVIOUS
  <1>3. l \in Seq(Pair)
    BY <1>1, <1>2, LinksFacts
  <1> QED
    BY <1>1, <1>2, <1>3 DEF NextEntry, Entry, Line

LEMMA Moved ==
    ASSUME SnapShape, NEW p \in Collector, NEW x \in Working, Move(p, x)
    PROVE  \E d \in Task :
               /\ at' = [at EXCEPT ![p] = d]
               /\ d.step = x /\ d.race = at[p].race /\ d.content = at[p].content
               /\ d.hex = at[p].hex /\ d.entry = at[p].entry
  <1>1. at[p] \in Task
    BY DEF SnapShape, Task
  <1>2. PICK d : d = [at[p] EXCEPT !.step = x]
    OBVIOUS
  <1>3. d = [step |-> x, race |-> at[p].race, content |-> at[p].content, hex |-> at[p].hex,
             entry |-> at[p].entry]
    BY <1>1, <1>2 DEF Task
  <1>4. d \in Task
    BY <1>1, <1>3 DEF Task
  <1>5. at' = [at EXCEPT ![p] = d]
    BY <1>1, <1>2 DEF Move
  <1> QED
    BY <1>3, <1>4, <1>5

LEMMA Filed ==
    ASSUME SnapInv, OneCollector, NEW p \in Collector, Create(p) \/ Fill(p)
    PROVE  SnapInv' /\ chain' = chain
  <1>0. /\ at[p].step \in {"create", "fill"} /\ chain' = chain /\ passed' = passed /\ started' = started
        /\ \E c, x : /\ files' = [files EXCEPT ![at[p].race] = c] /\ Move(p, x)
                     /\ \/ x = "fill" /\ c = "empty"
                        \/ x = "digest" /\ c = at[p].content
    BY DEF Create, Fill
  <1> PICK c, x : /\ files' = [files EXCEPT ![at[p].race] = c] /\ Move(p, x)
                  /\ \/ x = "fill" /\ c = "empty"
                     \/ x = "digest" /\ c = at[p].content
    BY <1>0
  <1>1. at[p] \in Task /\ at[p].race \in Race /\ at[p].content \in Content
        /\ files[at[p].race] \in {None, "empty"} /\ x \in Working
    BY <1>0 DEF SnapInv, SnapShape, Task, Placed, Working
  <1>2. PICK d \in Task : /\ at' = [at EXCEPT ![p] = d]
                         /\ d.step = x /\ d.race = at[p].race /\ d.content = at[p].content
    BY <1>1, Moved DEF SnapInv
  <1>3. files' \in [Race -> Content \cup {None, "empty"}] /\ files'[d.race] = c
    BY <1>0, <1>1, <1>2 DEF SnapInv, SnapShape
  <1>4. SnapShape'
    BY <1>0, <1>2, <1>3 DEF SnapInv, SnapShape, Task
  <1>5. at'[p] = d
    BY <1>2 DEF SnapInv, SnapShape
  <1>6. Placed(at[p])'
    BY <1>1, <1>2, <1>3, <1>5 DEF Placed, Working
  <1>8. \A i \in DOMAIN chain : chain[i].race \in Race /\ chain[i].snapshot \in Content
    BY ChainLines DEF SnapInv, Line
  <1>7. \A i \in DOMAIN chain : chain[i].race # at[p].race
    BY <1>1, <1>8, SnapshotAssumption DEF SnapInv, ChainBindsFiles
  <1>9. ChainVerifies' /\ ChainBindsFiles'
    BY <1>0, <1>1, <1>7, <1>8 DEF SnapInv, SnapShape, ChainVerifies, ChainBindsFiles
  <1> QED
    BY <1>0, <1>4, <1>6, <1>9, OnlyOne DEF SnapInv

LEMMA Written ==
    ASSUME SnapInv, OneCollector, NEW p \in Collector, WriteLine(p)
    PROVE  SnapInv' /\ \E e \in Line : chain' = Append(chain, e)
  <1>1. at[p] \in Task /\ at[p].race \in Race /\ at[p].content \in Content
        /\ files[at[p].race] = at[p].content /\ at[p].step = "append"
        /\ at[p].entry = NextEntry(at[p].race, at[p].content, at[p].hex) /\ ~Known(at[p].race)
        /\ at[p].hex \in BOOLEAN /\ Verifies(chain)
    BY DEF SnapInv, SnapShape, Task, Placed, Working, WriteLine
  <1>2. PICK e : e = at[p].entry
    OBVIOUS
  <1>3. chain \in Seq(Line) /\ Linked(chain) /\ \A i \in DOMAIN chain : chain[i].hex
    BY <1>1 DEF SnapInv, SnapShape, Verifies
  <1>4. e = [index |-> Len(chain) + 1, race |-> at[p].race, snapshot |-> at[p].content,
             hex |-> at[p].hex, prev |-> Links(chain)]
    BY <1>1, <1>2 DEF NextEntry, Entry
  <1>5. e \in Line
    BY <1>1, <1>2, NextIsLine DEF SnapInv
  <1>6. chain' = Append(chain, e)
    BY <1>2 DEF WriteLine
  <1>7. Linked(Append(chain, e))
    BY <1>1, <1>3, <1>4, <1>5, NextIsLinked DEF Known
  <1>8. /\ Len(chain) \in Nat /\ DOMAIN chain = 1..Len(chain)
        /\ chain' \in Seq(Line) /\ DOMAIN chain' = 1..(Len(chain) + 1)
        /\ \A i \in 1..Len(chain) : chain'[i] = chain[i]
        /\ chain'[Len(chain) + 1] = e
    BY <1>3, <1>5, <1>6, AppendProperties
  <1>9. PICK d \in Task : /\ at' = [at EXCEPT ![p] = d]
                         /\ d.step = "verify" /\ d.race = at[p].race /\ d.content = at[p].content
    BY <1>1, Moved DEF SnapInv, WriteLine, Working
  <1>10. UNCHANGED <<files, passed, started>> /\ at'[p] = d
    BY <1>9 DEF SnapInv, SnapShape, WriteLine
  <1>11. SnapShape'
    BY <1>8, <1>9, <1>10 DEF SnapInv, SnapShape, Task
  <1>12. Known(at[p].race)'
    BY <1>4, <1>8, <1>9, <1>10 DEF Known
  <1>13. Known(d.race)'
    BY <1>4, <1>8, <1>9 DEF Known
  <1>14. Placed(at[p])'
    BY <1>1, <1>9, <1>10, <1>13 DEF Placed, Working
  <1>15. ChainVerifies'
    <2>1. Linked(chain') /\ Len(chain') = Len(chain) + 1
      BY <1>3, <1>5, <1>6, <1>7, AppendProperties
    <2>2. \A i \in DOMAIN chain' : chain'[i].hex \/ i = Len(chain')
      BY <1>3, <1>8, <2>1
    <2> QED
      BY <2>1, <2>2 DEF ChainVerifies
  <1>16. \A i \in DOMAIN chain' : files'[chain'[i].race] = chain'[i].snapshot
    BY <1>1, <1>4, <1>8, <1>10 DEF SnapInv, ChainBindsFiles
  <1>17. \A r \in passed' : \E i \in DOMAIN chain' : chain'[i].race = r /\ chain'[i].hex
    BY <1>8, <1>10 DEF SnapInv, ChainBindsFiles
  <1> QED
    BY <1>5, <1>6, <1>11, <1>14, <1>15, <1>16, <1>17, OnlyOne DEF SnapInv, ChainBindsFiles

LEMMA CollectorStep ==
    ASSUME SnapInv, OneCollector, NEW p \in Collector,
           Collect(p) \/ Create(p) \/ Fill(p) \/ Digest(p) \/ ReadChain(p) \/ Report(p) \/ Die(p)
    PROVE  SnapInv' /\ chain' = chain
  <1>1. at[p] \in Task /\ Placed(at[p]) /\ at \in [Collector -> Task]
    BY DEF SnapInv, SnapShape, Task
  <1>2. Idle \in Task /\ Placed(Idle)
    BY DEF Idle, Task, Placed, Working
  <1>3. passed \subseteq Race /\ started \in 0..MaxStart
        /\ \A r \in passed : \E i \in DOMAIN chain : chain[i].race = r /\ chain[i].hex
    BY DEF SnapInv, SnapShape, ChainBindsFiles
  <1>4. CASE Collect(p)
    <2>1. PICK in \in Input :
             /\ at[p] = Idle /\ started < MaxStart /\ files[in.race] = None
             /\ started' = started + 1
             /\ at' = [at EXCEPT ![p] = [Idle EXCEPT !.step = "create", !.race = in.race,
                                                     !.content = in.content, !.hex = in.hex]]
             /\ UNCHANGED <<files, chain, passed>>
      BY Zenon, <1>4 DEF Collect
    <2>2. PICK d : d = [Idle EXCEPT !.step = "create", !.race = in.race, !.content = in.content,
                                    !.hex = in.hex]
      OBVIOUS
    <2>3. d = [step |-> "create", race |-> in.race, content |-> in.content, hex |-> in.hex,
               entry |-> None]
      BY <2>2 DEF Idle
    <2>4. in.race \in Race /\ in.content \in Content /\ in.hex \in BOOLEAN
      BY DEF Input
    <2>5. d \in Task /\ Placed(d)
      BY <2>1, <2>3, <2>4 DEF Task, Placed, Working
    <2>6. started' \in 0..MaxStart
      BY <1>3, <2>1, SnapshotAssumption
    <2> QED
      BY <1>3, <2>1, <2>2, <2>5, <2>6, PlaceKept DEF Task
  <1>5. CASE Create(p)
    BY <1>5, Filed
  <1>6. CASE Fill(p)
    BY <1>6, Filed
  <1>7. CASE Digest(p)
    <2>1. PICK d : d = [at[p] EXCEPT !.step = "read", !.content = files[at[p].race]]
      OBVIOUS
    <2>2. at[p].race \in Race /\ at[p].content \in Content /\ files[at[p].race] = at[p].content
      BY <1>1, <1>7 DEF Digest, Placed, Working
    <2>3. d = [step |-> "read", race |-> at[p].race, content |-> at[p].content,
               hex |-> at[p].hex, entry |-> at[p].entry]
      BY <1>1, <2>1, <2>2 DEF Task
    <2>4. d \in Task /\ Placed(d)
      BY <1>1, <2>2, <2>3 DEF Task, Placed, Working
    <2>5. at' = [at EXCEPT ![p] = d] /\ UNCHANGED <<files, chain, passed, started>>
      BY <1>1, <1>7, <2>1 DEF Digest
    <2> QED
      BY <1>3, <2>4, <2>5, PlaceKept DEF Task
  <1>8. CASE ReadChain(p)
    <2>1. UNCHANGED <<files, chain, passed, started>> /\ at[p].step = "read"
      BY <1>8 DEF ReadChain
    <2>2. CASE Leave(p)
      BY <1>2, <1>3, <2>1, <2>2, PlaceKept DEF Leave, Task
    <2>3. CASE ~Leave(p)
      <3>1. PICK e : e = NextEntry(at[p].race, at[p].content, at[p].hex)
        OBVIOUS
      <3>2. PICK d : d = [at[p] EXCEPT !.step = "append", !.entry = e]
        OBVIOUS
      <3>3. ~Known(at[p].race) /\ Verifies(chain) /\ at' = [at EXCEPT ![p] = d]
        BY <1>1, <1>8, <2>3, <3>1, <3>2 DEF ReadChain
      <3>4. at[p].race \in Race /\ at[p].content \in Content /\ files[at[p].race] = at[p].content
        BY <1>1, <2>1 DEF Placed, Working
      <3>10. at[p].hex \in BOOLEAN
        BY <1>1 DEF Task
      <3>5. chain \in Seq(Line)
        BY DEF SnapInv, SnapShape
      <3>6. e \in Line
        BY <3>1, <3>4, <3>10, NextIsLine DEF SnapInv
      <3>7. d = [step |-> "append", race |-> at[p].race, content |-> at[p].content,
                 hex |-> at[p].hex, entry |-> e]
        BY <1>1, <3>2 DEF Task
      <3>8. d \in Task
        BY <3>4, <3>6, <3>7, <3>10 DEF Task, Working
      <3>9. Placed(d)
        BY <3>1, <3>3, <3>4, <3>7 DEF Placed, Working
      <3> QED
        BY <1>3, <2>1, <3>3, <3>8, <3>9, PlaceKept DEF Task
    <2> QED
      BY <2>2, <2>3
  <1>9. CASE Report(p)
    <2>1. at[p].race \in Race /\ Known(at[p].race)
      BY <1>1, <1>9 DEF Report, Placed, Working
    <2>2. UNCHANGED <<files, chain, started>> /\ at' = [at EXCEPT ![p] = Idle]
          /\ passed' = IF Verifies(chain) THEN passed \cup {at[p].race} ELSE passed
      BY <1>9 DEF Report, Leave
    <2>3. \A r \in passed' : \E i \in DOMAIN chain : chain[i].race = r /\ chain[i].hex
      BY <1>3, <2>1, <2>2 DEF Verifies, Known
    <2>4. passed' \subseteq Race
      BY <1>3, <2>1, <2>2
    <2> QED
      BY <1>2, <1>3, <2>2, <2>3, <2>4, PlaceKept DEF Task
  <1>10. CASE Die(p)
    BY <1>2, <1>3, <1>10, PlaceKept DEF Die, Leave, Task
  <1> QED
    BY <1>4, <1>5, <1>6, <1>7, <1>8, <1>9, <1>10

LEMMA AppendedIsPrefix ==
    ASSUME NEW s \in Seq(Line), NEW t, t = s \/ \E e \in Line : t = Append(s, e)
    PROVE  IsPrefix(s, t) /\ Len(t) <= Len(s) + 1
  <1>1. CASE t = s
    BY <1>1, LenProperties DEF IsPrefix
  <1>2. ASSUME NEW e \in Line, t = Append(s, e) PROVE IsPrefix(s, t) /\ Len(t) <= Len(s) + 1
    <2>1. t \in Seq(Line) /\ Len(t) = Len(s) + 1 /\ Len(s) \in Nat /\ \A i \in 1..Len(s) : t[i] = s[i]
      BY <1>2, AppendProperties
    <2>2. /\ SubSeq(t, 1, Len(s)) \in Seq(Line) /\ Len(SubSeq(t, 1, Len(s))) = Len(s)
          /\ \A i \in 1..Len(s) : SubSeq(t, 1, Len(s))[i] = t[i]
      BY <2>1
    <2>3. /\ SubSeq(s, 1, Len(s)) \in Seq(Line) /\ Len(SubSeq(s, 1, Len(s))) = Len(s)
          /\ \A i \in 1..Len(s) : SubSeq(s, 1, Len(s))[i] = s[i]
      BY <2>1
    <2>4. SubSeq(s, 1, Len(s)) = SubSeq(t, 1, Len(s))
      BY <2>1, <2>2, <2>3, SeqEqual
    <2> QED
      BY <2>1, <2>4 DEF IsPrefix
  <1> QED
    BY <1>1, <1>2

LEMMA SnapStep ==
    ASSUME SnapInv, OneCollector, [SnapNext]_snapVars
    PROVE  SnapInv' /\ IsPrefix(chain, chain') /\ Len(chain') <= Len(chain) + 1
  <1>1. chain \in Seq(Line)
    BY DEF SnapInv, SnapShape
  <1>2. CASE UNCHANGED snapVars
    <2>1. SnapInv' /\ chain' = chain
      BY <1>2 DEF snapVars, SnapInv, SnapShape, ChainVerifies, ChainBindsFiles, Placed, NextEntry, Known, Verifies
    <2> QED
      BY <1>1, <2>1, AppendedIsPrefix
  <1>3. ASSUME NEW p \in Collector, WriteLine(p)
        PROVE  SnapInv' /\ IsPrefix(chain, chain') /\ Len(chain') <= Len(chain) + 1
    BY <1>1, <1>3, Written, AppendedIsPrefix
  <1>4. ASSUME NEW p \in Collector,
               Collect(p) \/ Create(p) \/ Fill(p) \/ Digest(p) \/ ReadChain(p) \/ Report(p) \/ Die(p)
        PROVE  SnapInv' /\ IsPrefix(chain, chain') /\ Len(chain') <= Len(chain) + 1
    BY <1>1, <1>4, CollectorStep, AppendedIsPrefix
  <1> QED
    BY <1>2, <1>3, <1>4 DEF SnapNext

LEMMA SnapSafe == SnapInv => ChainInvariant
  BY ChainLines DEF SnapInv, SnapShape, ChainInvariant, SnapTypeOK, Line

(* With one collector at a time the manifest is linked and verifies up to  *)
(* its last line, and each of its entries says what the file of its race   *)
(* says, now and for ever.                                                 *)
THEOREM ChainInvariantHolds == ASSUME OneCollector PROVE SnapSpec => []ChainInvariant
  BY SnapInitial, SnapStep, SnapSafe, PTL DEF SnapSpec

(* It then only grows, by one entry at a time.                             *)
THEOREM ManifestOnlyGrows == ASSUME OneCollector PROVE SnapSpec => OnlyAppended
  <1>1. SnapInv /\ [SnapNext]_snapVars => [IsPrefix(chain, chain') /\ Len(chain') <= Len(chain) + 1]_snapVars
    BY SnapStep
  <1> QED
    BY <1>1, SnapInitial, SnapStep, PTL DEF SnapSpec, OnlyAppended
-----------------------------------------------------------------------------
(* The capture of a race and the lookup of a rider.  The invariant says,   *)
(* per place of a job, what it has found so far; and of the site only what *)
(* holds while it has not changed since the job began.                     *)
Looking == {"landing", "search", "candidates", "profiles", "passed", "fused"}
Steady == job.edits = edits

JobShape ==
    /\ job = [kind |-> job.kind, pc |-> job.pc, sheet |-> job.sheet, from |-> job.from,
              started |-> job.started, last |-> job.last, left |-> job.left, found |-> job.found,
              profiles |-> job.profiles, asked |-> job.asked, closest |-> job.closest,
              until |-> job.until, denied |-> job.denied, edits |-> job.edits]
    /\ job.kind \in {"none", "card", "batch", "v1", "v2"}
    /\ job.pc \in Looking \cup {"discovery", "pdf", "idle", "failed", "halted"}
    /\ job.sheet \in Seq(Entrant) /\ job.profiles \in Seq(Profile) /\ job.asked \in Nat
    /\ LooksUp => Len(job.sheet) = IF job.kind = "batch" THEN Riders ELSE 1
    /\ job.pc \in Looking => LooksUp \/ (job.kind = "card" /\ job.pc = "passed")
    /\ job.pc \in {"discovery", "pdf"} => job.kind = "card"
    /\ job.pc = "candidates" => job.kind = "v1"
    /\ job.pc = "profiles" => job.kind # "v1"
    /\ job.pc = "fused" => job.kind = "batch"

(* The times, in order, and the pace.                                      *)
JobTimes ==
    /\ job.from \in 0..time /\ job.started \in 0..time /\ job.until \in 0..time
    /\ job.edits \in 0..edits
    /\ job.last # Absent => job.last \in 0..time
    /\ job.closest # Absent => job.closest \in Nat /\ job.closest >= Pause

World ==
    /\ site \in [Snum -> Profile \cup {Absent}] /\ time \in Nat
    /\ edits \in 0..MaxEdits /\ jobs \in 0..MaxJobs
    /\ card # Absent => card.entrants \in [Cars -> Entrant] \cup {Absent} /\ card.from \in 0..time

(* A race is looked up as its racecard has it, and no longer than allowed. *)
OfTheCard ==
    /\ LooksUp /\ job.pc \in Looking => ValidSheet(job.sheet)
    /\ job.kind = "batch" =>
         /\ card.entrants \in [Cars -> Entrant] /\ card.from = job.from
         /\ job.sheet = Kept(card.entrants)
         /\ job.pc \in Looking => /\ job.until <= job.from + MaxWindow
                                  /\ job.until <= job.started + MaxBatch
         /\ job.pc = "fused" => \A c \in Cars : /\ job.profiles[c].form = job.sheet[c].form
                                              /\ Key(job.sheet[c]) = PrintedKey(card.entrants[c])

(* Whom the searches found, outside of the groups that are left.           *)
FoundBut(left) ==
    /\ job.found \in [DOMAIN job.sheet -> Snum \cup {Absent}]
    /\ \A c \in DOMAIN job.sheet :
         IF job.sheet[c].group \in left THEN job.found[c] = Absent
         ELSE /\ job.found[c] \in Snum
              /\ \A d \in DOMAIN job.sheet : job.found[c] = job.found[d] => c = d
              /\ Steady => Named(Listed(job.sheet[c].group), job.sheet[c]) = {job.found[c]}

Profiled ==
    /\ Len(job.profiles) <= Len(job.sheet)
    /\ \A c \in DOMAIN job.profiles : /\ job.profiles[c].number = job.found[c]
                                      /\ Key(job.profiles[c]) = Key(job.sheet[c])

Groups == GroupsOf(job.sheet)

Searching ==
    job.kind \in {"batch", "v2"} =>
        /\ job.pc = "landing" => job.asked = 0 /\ job.profiles = <<>>
        /\ job.pc = "search" =>
             /\ job.left # {} /\ job.left \subseteq Groups /\ FoundBut(job.left)
             /\ job.profiles = <<>>
             /\ job.asked = 1 + Cardinality(Groups) - Cardinality(job.left)
        /\ job.pc \in {"profiles", "passed", "fused"} =>
             /\ FoundBut({}) /\ Profiled
             /\ job.asked = 1 + Cardinality(Groups) + Len(job.profiles)
             /\ job.pc = "profiles" <=> Len(job.profiles) # Len(job.sheet)

(* The first locator: whom it has read, and which of them matched.         *)
Reading ==
    job.kind = "v1" =>
        /\ job.pc = "search" => job.left \subseteq Groups
        /\ job.pc = "candidates" =>
             /\ job.left # {} /\ job.left \subseteq Snum /\ job.found \subseteq Snum
             /\ Steady => LET e == job.sheet[1]
                              read == Listed(e.group) \ job.left
                          IN  /\ job.left \subseteq Listed(e.group) /\ \A s \in read : Parsed(s)
                              /\ job.found = {s \in read : Verified(s, e)}
        /\ job.pc = "passed" /\ Steady =>
             Named(Listed(job.sheet[1].group), job.sheet[1]) = {job.found[1]}

CaptureInv ==
    JobShape /\ JobTimes /\ World /\ OfTheCard /\ Searching /\ Reading /\ LostForReason

LEMMA SiteStays ==
    ASSUME UNCHANGED site
    PROVE  /\ \A s : Parsed(s)' = Parsed(s)
           /\ \A s, e : Verified(s, e)' = Verified(s, e)
           /\ \A g : Listed(g)' = Listed(g)
           /\ \A L, e : Named(L, e)' = Named(L, e)
           /\ \A e : Findable(e)' = Findable(e)
<1>1. \A s : Parsed(s)' = Parsed(s)
  BY DEF Parsed
<1>2. \A s, e : Verified(s, e)' = Verified(s, e)
  BY <1>1 DEF Verified
<1>3. \A g : Listed(g)' = Listed(g)
  BY DEF Listed
<1>4. \A L, e : Named(L, e)' = Named(L, e)
  BY DEF Named
<1>5. \A e : Findable(e)' = Findable(e)
  BY DEF Findable, Parsed, Listed, Named, Selectable, OptionsFor
<1> QED BY <1>1, <1>2, <1>3, <1>4, <1>5

LEMMA SpacingKept == ASSUME JobTimes, World
    PROVE  /\ Pause \in Nat /\ SentAt \in Nat /\ SentAt >= time /\ LimiterAllows
           /\ job.last # Absent => SentAt - job.last >= Pause /\ SentAt - job.last \in Nat
<1>1. Pause \in Nat
  BY CaptureAssumption DEF Pause
<1>2. time \in Nat
  BY DEF World
<1>3. SentAt \in Nat /\ SentAt >= time
  BY <1>1, <1>2 DEF SentAt
<1>4. ASSUME job.last # Absent PROVE SentAt - job.last >= Pause /\ SentAt - job.last \in Nat
  <2>1. job.last \in 0..time
    BY <1>4 DEF JobTimes
  <2>2. SentAt = time + Pause
    BY <1>4 DEF SentAt
  <2> QED BY <1>1, <1>2, <2>1, <2>2
<1> QED BY <1>1, <1>3, <1>4 DEF LimiterAllows

(* What a step may make of a job before its answer is noted.               *)
Carried(n) ==
    /\ n.kind = job.kind /\ n.sheet = job.sheet /\ n.from = job.from /\ n.last = job.last
    /\ n.asked = job.asked /\ n.closest = job.closest /\ n.until = job.until /\ n.edits = job.edits

IsJob(n) ==
    n = [kind |-> n.kind, pc |-> n.pc, sheet |-> n.sheet, from |-> n.from,
         started |-> n.started, last |-> n.last, left |-> n.left, found |-> n.found,
         profiles |-> n.profiles, asked |-> n.asked, closest |-> n.closest,
         until |-> n.until, denied |-> n.denied, edits |-> n.edits]

(* A request was let through, and its answer noted.                        *)
Answered(late, n) ==
    /\ late \in Nat /\ time' = SentAt + late /\ time' \in Nat /\ time' >= time
    /\ UNCHANGED <<site, edits, jobs>>
    /\ IsJob(job')
    /\ job'.kind = n.kind /\ job'.pc = n.pc /\ job'.sheet = n.sheet /\ job'.from = n.from
    /\ job'.started = n.started /\ job'.left = n.left /\ job'.found = n.found
    /\ job'.profiles = n.profiles /\ job'.denied = n.denied /\ job'.edits = n.edits
    /\ job'.asked = n.asked + 1 /\ job'.until = time' /\ job'.last = SentAt
    /\ job'.closest # Absent => job'.closest \in Nat /\ job'.closest >= Pause

LEMMA NotedIsAnswered ==
    ASSUME JobTimes, World, NEW late \in 0..MaxDelay, NEW n, IsJob(n), Carried(n),
           time' = SentAt + late, job' = Noted(n, SentAt, late),
           UNCHANGED <<site, edits, jobs>>
    PROVE  Answered(late, n)
<1>1. late \in Nat /\ SentAt \in Nat /\ SentAt >= time /\ time \in Nat
  BY SpacingKept, CaptureAssumption DEF World
<1>2. PICK close : close = IF job.last = Absent THEN Absent
                           ELSE IF n.closest = Absent \/ SentAt - job.last < n.closest
                                THEN SentAt - job.last ELSE n.closest
  OBVIOUS
<1>3. job' = [n EXCEPT !.asked = n.asked + 1, !.last = SentAt, !.until = SentAt + late, !.closest = close]
  BY <1>2, Zenon DEF Noted
<1>4. job' = [kind |-> n.kind, pc |-> n.pc, sheet |-> n.sheet, from |-> n.from,
              started |-> n.started, last |-> SentAt, left |-> n.left, found |-> n.found,
              profiles |-> n.profiles, asked |-> n.asked + 1, closest |-> close,
              until |-> SentAt + late, denied |-> n.denied, edits |-> n.edits]
  BY <1>3 DEF IsJob
<1>5. close # Absent => close \in Nat /\ close >= Pause
  <2>1. CASE job.last = Absent
    BY <1>2, <2>1
  <2>2. CASE job.last # Absent
    <3>1. SentAt - job.last >= Pause /\ SentAt - job.last \in Nat
      BY <2>2, SpacingKept
    <3>2. n.closest # Absent => n.closest \in Nat /\ n.closest >= Pause
      BY DEF Carried, JobTimes
    <3> QED BY <1>2, <2>2, <3>1, <3>2
  <2> QED BY <2>1, <2>2
<1>6. /\ job'.kind = n.kind /\ job'.pc = n.pc /\ job'.sheet = n.sheet /\ job'.from = n.from
      /\ job'.started = n.started /\ job'.left = n.left /\ job'.found = n.found
      /\ job'.profiles = n.profiles /\ job'.denied = n.denied /\ job'.edits = n.edits
      /\ job'.asked = n.asked + 1 /\ job'.until = SentAt + late /\ job'.last = SentAt
      /\ job'.closest = close
  BY <1>4
<1>7. IsJob(job')
  BY <1>4, <1>6 DEF IsJob
<1>8. time' \in Nat /\ time' >= time
  BY <1>1
<1>9. /\ job'.kind = n.kind /\ job'.pc = n.pc /\ job'.sheet = n.sheet /\ job'.from = n.from
      /\ job'.started = n.started /\ job'.left = n.left /\ job'.found = n.found
      /\ job'.profiles = n.profiles /\ job'.denied = n.denied /\ job'.edits = n.edits
      /\ job'.asked = n.asked + 1 /\ job'.until = time' /\ job'.last = SentAt
      /\ job'.closest = close
  BY <1>6, Zenon
<1>10. job'.closest # Absent => job'.closest \in Nat /\ job'.closest >= Pause
  BY <1>5, <1>9
<1> QED BY <1>1, <1>7, <1>8, <1>9, <1>10, Zenon DEF Answered

LEMMA AskedIsAnswered ==
    ASSUME JobTimes, World, NEW late, NEW n, IsJob(n), Carried(n), Asked(late, n)
    PROVE  late \in 0..MaxDelay /\ Answered(late, n) /\ UNCHANGED card
<1>1. late \in 0..MaxDelay /\ time' = SentAt + late /\ job' = Noted(n, SentAt, late)
      /\ UNCHANGED <<site, edits, card, jobs>>
  BY SpacingKept, Zenon DEF Asked
<1> QED BY <1>1, NotedIsAnswered

LEMMA AnsweredInOrder ==
    ASSUME JobTimes, World, NEW late, NEW n, Carried(n), Answered(late, n), n.started \in 0..time'
    PROVE  JobTimes' /\ (UNCHANGED card => World')
<1>1. Pause' = Pause
  BY DEF Answered, Carried, Pause
<1>2. time \in Nat /\ time' \in Nat /\ time' >= time /\ SentAt \in Nat /\ SentAt <= time' /\ late \in Nat
  BY SpacingKept DEF World, Answered
<1>3. job'.from \in 0..time'
  <2>1. job'.from = job.from
    BY Zenon DEF Answered, Carried
  <2>2. job.from \in 0..time
    BY DEF JobTimes
  <2> QED BY <1>2, <2>1, <2>2
<1>4. job'.started \in 0..time' /\ job'.until \in 0..time'
  BY <1>2 DEF Answered
<1>5. job'.edits \in 0..edits'
  <2>1. job'.edits = job.edits /\ edits' = edits
    BY Zenon DEF Answered, Carried
  <2> QED BY <2>1 DEF JobTimes
<1>6. job'.last \in 0..time'
  <2>1. job'.last = SentAt
    BY Zenon DEF Answered
  <2> QED BY <1>2, <2>1
<1>7. job'.closest # Absent => job'.closest \in Nat /\ job'.closest >= Pause'
  BY <1>1 DEF Answered
<1>8. JobTimes'
  BY <1>3, <1>4, <1>5, <1>6, <1>7 DEF JobTimes
<1>9. UNCHANGED <<site, edits, jobs>>
  BY Zenon DEF Answered
<1>10. card # Absent => card.from \in 0..time'
  BY <1>2 DEF World
<1>11. UNCHANGED card => World'
  BY <1>2, <1>9, <1>10 DEF World
<1> QED BY <1>8, <1>11

(* Why a job that looks somebody up may fail; the time as a parameter.     *)
Reason(t) ==
    \/ ~ ValidSheet(job.sheet) \/ \E c \in DOMAIN job.sheet : ~ Findable(job.sheet[c])
    \/ job.kind = "v1" /\ \E s \in Listed(job.sheet[1].group) : ~ Parsed(s)
    \/ TooLate(t)
    \/ /\ Len(job.profiles) = Len(job.sheet)
       /\ \E c \in Cars : \/ job.profiles[c].form # job.sheet[c].form
                          \/ Key(job.sheet[c]) # PrintedKey(card.entrants[c])

LEMMA ReasonStays ==
    ASSUME NEW t, UNCHANGED <<site, card>>, job'.kind = job.kind, job'.sheet = job.sheet, job'.from = job.from,
           job'.started = job.started, job'.profiles = job.profiles, Reason(t)
    PROVE  Reason(t)'
<1>1. ValidSheet(job'.sheet) = ValidSheet(job.sheet) /\ TooLate(t)' = TooLate(t)
  BY DEF TooLate, Overdue, OverBudget
<1>2. (\E c \in DOMAIN job.sheet : ~ Findable(job.sheet[c]))
        => \E c \in DOMAIN job'.sheet : ~ Findable(job.sheet[c])'
  BY SiteStays
<1>3. (\E s \in Listed(job.sheet[1].group) : ~ Parsed(s))
        => \E s \in Listed(job.sheet[1].group)' : ~ Parsed(s)'
  BY SiteStays
<1>4. CASE ~ ValidSheet(job.sheet)
  BY <1>1, <1>4, Zenon DEF Reason
<1>5. CASE \E c \in DOMAIN job.sheet : ~ Findable(job.sheet[c])
  BY <1>2, <1>5, Zenon DEF Reason
<1>6. CASE job.kind = "v1" /\ \E s \in Listed(job.sheet[1].group) : ~ Parsed(s)
  BY <1>3, <1>6, Zenon DEF Reason
<1>7. CASE TooLate(t)
  BY <1>1, <1>7, Zenon DEF Reason
<1>8. CASE /\ Len(job.profiles) = Len(job.sheet)
           /\ \E c \in Cars : \/ job.profiles[c].form # job.sheet[c].form
                              \/ Key(job.sheet[c]) # PrintedKey(card.entrants[c])
  BY <1>8 DEF Reason, Key, PrintedKey
<1> QED BY <1>4, <1>5, <1>6, <1>7, <1>8 DEF Reason

LEMMA LostIsReason == LostForReason = (LooksUp /\ job.pc = "failed" /\ ~ job.denied /\ Steady => Reason(time))
BY DEF LostForReason, Reason, Steady

(* A job that stops: if it was not denied anything, there is a reason.     *)
LEMMA StoppedKeeps ==
    ASSUME CaptureInv, JobTimes', World', UNCHANGED <<site, edits, card>>,
           IsJob(job'), job'.kind = job.kind, job'.sheet = job.sheet, job'.from = job.from,
           job'.started = job.started, job'.profiles = job.profiles, job'.edits = job.edits,
           job'.asked \in Nat, job'.pc \in {"failed", "halted"},
           LooksUp /\ job'.pc = "failed" /\ ~ job'.denied /\ Steady => Reason(time')
    PROVE  CaptureInv'
<1>1. JobShape'
  <2>1. LooksUp' = LooksUp
    BY DEF LooksUp
  <2>2. JobShape
    BY DEF CaptureInv
  <2> QED BY <2>1, <2>2 DEF JobShape, IsJob, Looking
<1>2. OfTheCard'
  BY DEF OfTheCard, Looking, CaptureInv
<1>3. Searching' /\ Reading'
  BY DEF Searching, Reading
<1>4. LostForReason'
  <2>1. LooksUp' = LooksUp /\ Steady' = Steady
    BY DEF LooksUp, Steady
  <2>2. ASSUME LooksUp, job'.pc = "failed", ~ job'.denied, Steady PROVE Reason(time)'
    <3>1. Reason(time')
      BY <2>2
    <3>2. PICK t : t = time'
      OBVIOUS
    <3>3. Reason(t)'
      BY <3>1, <3>2, ReasonStays
    <3>4. TooLate(t)' => TooLate(time)'
      BY <3>2 DEF TooLate, Overdue, OverBudget
    <3> QED BY <3>3, <3>4, Zenon DEF Reason
  <2>3. LostForReason' = (LooksUp /\ job.pc = "failed" /\ ~ job.denied /\ Steady => Reason(time))'
    BY DEF LostForReason, Reason, Steady
  <2> QED BY <2>1, <2>2, <2>3
<1> QED BY <1>1, <1>2, <1>3, <1>4 DEF CaptureInv

LEMMA FailsIsJob == ASSUME JobShape PROVE IsJob(job) /\ IsJob(Fails) /\ Carried(Fails) /\ Fails.pc = "failed"
    /\ Fails.started = job.started /\ Fails.profiles = job.profiles /\ Fails.denied = job.denied
<1>1. IsJob(job)
  BY DEF JobShape, IsJob
<1>2. Fails = [kind |-> job.kind, pc |-> "failed", sheet |-> job.sheet, from |-> job.from,
              started |-> job.started, last |-> job.last, left |-> job.left, found |-> job.found,
              profiles |-> job.profiles, asked |-> job.asked, closest |-> job.closest,
              until |-> job.until, denied |-> job.denied, edits |-> job.edits]
  BY <1>1 DEF Fails, IsJob
<1> QED BY <1>1, <1>2 DEF IsJob, Carried

LEMMA FailsKeep ==
    ASSUME CaptureInv, NEW late, Asked(late, Fails),
           LooksUp /\ ~ job.denied /\ Steady => Reason(SentAt + late)
    PROVE  CaptureInv'
<1>1. JobShape /\ JobTimes /\ World
  BY DEF CaptureInv
<1>2. Answered(late, Fails) /\ UNCHANGED card
  BY <1>1, FailsIsJob, AskedIsAnswered
<1>3. /\ job'.kind = job.kind /\ job'.pc = "failed" /\ job'.sheet = job.sheet /\ job'.from = job.from
      /\ job'.started = job.started /\ job'.profiles = job.profiles /\ job'.denied = job.denied
      /\ job'.edits = job.edits /\ job'.asked = job.asked + 1 /\ IsJob(job') /\ time' = SentAt + late
      /\ UNCHANGED <<site, edits, card>>
  BY <1>1, <1>2, FailsIsJob, Zenon DEF Answered, Carried
<1>4. Fails.started \in 0..time'
  <2>1. time \in Nat /\ time' \in Nat /\ time' >= time /\ job.started \in 0..time
    BY <1>1, <1>2 DEF World, JobTimes, Answered
  <2>2. Fails.started = job.started
    BY <1>1, FailsIsJob
  <2> QED BY <2>1, <2>2
<1>5. JobTimes' /\ World'
  BY <1>1, <1>2, <1>4, FailsIsJob, AnsweredInOrder
<1>6. job'.asked \in Nat
  BY <1>1, <1>3 DEF JobShape
<1>7. LooksUp /\ job'.pc = "failed" /\ ~ job'.denied /\ Steady => Reason(time')
  BY <1>3, Zenon
<1>8. job'.pc \in {"failed", "halted"}
  BY <1>3
<1> QED BY <1>3, <1>5, <1>6, <1>7, <1>8, StoppedKeeps

LEMMA DeniedKeeps == ASSUME CaptureInv, NEW late, Denied(late) PROVE CaptureInv'
<1>1. JobShape /\ JobTimes /\ World
  BY DEF CaptureInv
<1>2. PICK here \in {"halted", "failed"} : Asked(late, [job EXCEPT !.pc = here, !.denied = TRUE])
  BY DEF Denied
<1>3. PICK n : n = [job EXCEPT !.pc = here, !.denied = TRUE]
  OBVIOUS
<1>4. n = [kind |-> job.kind, pc |-> here, sheet |-> job.sheet, from |-> job.from,
              started |-> job.started, last |-> job.last, left |-> job.left, found |-> job.found,
              profiles |-> job.profiles, asked |-> job.asked, closest |-> job.closest,
              until |-> job.until, denied |-> TRUE, edits |-> job.edits]
  BY <1>1, <1>3 DEF JobShape
<1>5. IsJob(n) /\ Carried(n) /\ n.pc = here /\ n.started = job.started /\ n.profiles = job.profiles
      /\ n.denied = TRUE
  BY <1>4 DEF IsJob, Carried
<1>6. Answered(late, n) /\ UNCHANGED card
  BY <1>1, <1>2, <1>3, <1>5, AskedIsAnswered
<1>7. /\ job'.kind = job.kind /\ job'.pc = here /\ job'.sheet = job.sheet /\ job'.from = job.from
      /\ job'.started = job.started /\ job'.profiles = job.profiles /\ job'.denied = TRUE
      /\ job'.edits = job.edits /\ job'.asked = job.asked + 1 /\ IsJob(job')
      /\ UNCHANGED <<site, edits, card>>
  BY <1>5, <1>6, Zenon DEF Answered, Carried
<1>8. n.started \in 0..time'
  <2>1. time \in Nat /\ time' \in Nat /\ time' >= time /\ job.started \in 0..time
    BY <1>1, <1>6 DEF World, JobTimes, Answered
  <2> QED BY <1>5, <2>1
<1>9. JobTimes' /\ World'
  BY <1>1, <1>5, <1>6, <1>8, AnsweredInOrder
<1>10. job'.asked \in Nat
  BY <1>1, <1>7 DEF JobShape
<1>11. job'.pc \in {"failed", "halted"}
  BY <1>7
<1> QED BY <1>7, <1>9, <1>10, <1>11, StoppedKeeps

(* An answer that counts only if it comes in time.                         *)
LEMMA InTimeOrFailed ==
    ASSUME CaptureInv, NEW late, NEW n, IsJob(n), Carried(n), AskedInTime(late, n)
    PROVE  CaptureInv' \/ (Asked(late, n) /\ ~ TooLate(SentAt + late))
<1>1. CASE TooLate(SentAt + late)
  <2>1. Asked(late, Fails)
    BY <1>1, Zenon DEF AskedInTime
  <2>2. Reason(SentAt + late)
    BY <1>1, Zenon DEF Reason
  <2> QED BY <2>1, <2>2, FailsKeep
<1>2. CASE ~ TooLate(SentAt + late)
  BY <1>2, Zenon DEF AskedInTime
<1> QED BY <1>1, <1>2

(* A job that goes on with the race or the rider it looks up.              *)
LEMMA GoesOn ==
    ASSUME CaptureInv, NEW late, NEW n, IsJob(n), Carried(n), Asked(late, n),
           LooksUp, job.pc \in Looking, n.pc \in {"search", "candidates", "profiles", "passed"},
           n.started \in 0..(SentAt + late), n.profiles \in Seq(Profile),
           n.pc = "candidates" => job.kind = "v1", n.pc = "profiles" => job.kind # "v1",
           job.kind = "batch" => n.started = job.started /\ ~ TooLate(SentAt + late)
    PROVE  /\ Answered(late, n) /\ JobTimes' /\ World' /\ JobShape' /\ OfTheCard' /\ LostForReason'
           /\ job'.kind = job.kind /\ job'.sheet = job.sheet /\ job'.pc = n.pc /\ Steady' = Steady
           /\ job'.found = n.found /\ job'.left = n.left /\ job'.profiles = n.profiles
           /\ job'.asked = job.asked + 1 /\ UNCHANGED site
<1>1. JobShape /\ JobTimes /\ World /\ OfTheCard
  BY DEF CaptureInv
<1>2. Answered(late, n) /\ UNCHANGED card
  BY <1>1, AskedIsAnswered
<1>3. /\ job'.kind = job.kind /\ job'.pc = n.pc /\ job'.sheet = job.sheet /\ job'.from = job.from
      /\ job'.started = n.started /\ job'.profiles = n.profiles /\ job'.until = time'
      /\ job'.edits = job.edits /\ job'.asked = job.asked + 1 /\ IsJob(job') /\ time' = SentAt + late
      /\ UNCHANGED <<site, edits, card>> /\ job'.found = n.found /\ job'.left = n.left
  BY <1>2, Zenon DEF Answered, Carried
<1>4. n.started \in 0..time'
  BY <1>3
<1>5. JobTimes' /\ World'
  BY <1>1, <1>2, <1>4, AnsweredInOrder
<1>6. LooksUp' = LooksUp /\ Steady' = Steady
  BY <1>3 DEF LooksUp, Steady
<1>7. JobShape'
  <2>1. job'.asked \in Nat
    BY <1>1, <1>3 DEF JobShape
  <2>2. job'.pc \in Looking /\ job'.pc \notin {"discovery", "pdf", "fused"}
    BY <1>3 DEF Looking
  <2> QED BY <1>1, <1>3, <1>6, <2>1, <2>2 DEF JobShape, IsJob
<1>8. LostForReason'
  BY <1>3 DEF LostForReason
<1>9. OfTheCard'
  <2>1. ValidSheet(job.sheet)
    BY <1>1 DEF OfTheCard
  <2>2. ASSUME job.kind = "batch"
        PROVE  /\ card.entrants \in [Cars -> Entrant] /\ card.from = job.from
               /\ job.sheet = Kept(card.entrants)
               /\ time' <= job.from + MaxWindow /\ time' <= n.started + MaxBatch
    <3>1. ~ Overdue(time') /\ n.started = job.started
      BY <1>3, <2>2 DEF TooLate
    <3>2. time' \in Nat /\ job.started \in Nat /\ job.from \in Nat
      BY <1>1, <1>2 DEF JobTimes, Answered, World
    <3>3. MaxWindow \in Nat /\ MaxBatch \in Nat
      BY CaptureAssumption
    <3>4. /\ card.entrants \in [Cars -> Entrant] /\ card.from = job.from
          /\ job.sheet = Kept(card.entrants)
      BY <1>1, <2>2 DEF OfTheCard
    <3>5. time' <= job.from + MaxWindow /\ time' <= job.started + MaxBatch
      BY <3>1, <3>2, <3>3 DEF Overdue
    <3> QED BY <3>1, <3>4, <3>5
  <2>3. ValidSheet(job'.sheet)
    BY <1>3, <2>1
  <2>4. ASSUME job'.kind = "batch"
        PROVE  /\ card'.entrants \in [Cars -> Entrant] /\ card'.from = job'.from
               /\ job'.sheet = Kept(card'.entrants)
               /\ job'.until <= job'.from + MaxWindow /\ job'.until <= job'.started + MaxBatch
    BY <1>3, <2>2, <2>4
  <2>5. job'.pc # "fused"
    BY <1>3
  <2> QED BY <2>3, <2>4, <2>5 DEF OfTheCard
<1> QED BY <1>2, <1>3, <1>5, <1>6, <1>7, <1>8, <1>9

LEMMA BeginKeeps ==
    ASSUME CaptureInv, NEW kind, NEW here, NEW sheet \in Seq(Entrant), NEW from \in 0..time,
           Begin(kind, here, sheet, from),
           \/ kind = "card" /\ here = "discovery"
           \/ /\ kind \in {"batch", "v1", "v2"} /\ Len(sheet) = IF kind = "batch" THEN Riders ELSE 1
              /\ here = IF ValidSheet(sheet) THEN "landing" ELSE "failed",
           card' # Absent => card'.entrants \in [Cars -> Entrant] \cup {Absent} /\ card'.from \in 0..time,
           kind = "batch" => /\ card'.entrants \in [Cars -> Entrant]
                             /\ sheet = Kept(card'.entrants) /\ card'.from = from
    PROVE  CaptureInv'
<1>1. job' = [kind |-> kind, pc |-> here, sheet |-> sheet, from |-> from, started |-> time,
              last |-> Absent, left |-> {}, found |-> <<>>, profiles |-> <<>>,
              asked |-> 0, closest |-> Absent, until |-> 0, denied |-> FALSE, edits |-> edits]
  BY DEF Begin, NoJob
<1>2. /\ job'.kind = kind /\ job'.pc = here /\ job'.sheet = sheet /\ job'.from = from
      /\ job'.started = time /\ job'.last = Absent /\ job'.profiles = <<>> /\ job'.asked = 0
      /\ job'.closest = Absent /\ job'.until = 0 /\ job'.edits = edits /\ IsJob(job')
      /\ UNCHANGED <<site, edits, time>> /\ jobs < MaxJobs /\ jobs' = jobs + 1
  <2>1. IsJob(job')
    BY <1>1 DEF IsJob
  <2>2. UNCHANGED <<site, edits, time>> /\ jobs < MaxJobs /\ jobs' = jobs + 1
    BY DEF Begin, NoneRuns
  <2> QED BY <1>1, <2>1, <2>2
<1>3. World /\ edits \in Nat /\ time \in Nat /\ from \in Nat
  BY CaptureAssumption DEF CaptureInv, World
<1>4. World'
  BY <1>2, <1>3, CaptureAssumption DEF World
<1>5. JobTimes'
  BY <1>2, <1>3 DEF JobTimes
<1>6. LooksUp' <=> kind \in {"batch", "v1", "v2"}
  BY <1>2 DEF LooksUp
<1>7. JobShape'
  <2>1. job'.profiles \in Seq(Profile)
    BY <1>2
  <2> QED BY <1>2, <1>6, <2>1 DEF JobShape, IsJob, Looking
<1>8. OfTheCard'
  <2>1. LooksUp' /\ job'.pc \in Looking => ValidSheet(job'.sheet)
    BY <1>2, <1>6 DEF Looking
  <2>2. kind = "batch" => job'.until <= job'.from + MaxWindow /\ job'.until <= job'.started + MaxBatch
    BY <1>2, <1>3, CaptureAssumption
  <2>3. kind = "batch" => job'.pc # "fused"
    BY <1>2
  <2> QED BY <1>2, <2>1, <2>2, <2>3 DEF OfTheCard
<1>9. Searching' /\ Reading'
  BY <1>2 DEF Searching, Reading
<1>10. LostForReason'
  <2>1. LooksUp' /\ job'.pc = "failed" => ~ ValidSheet(job'.sheet)
    BY <1>2, <1>6
  <2> QED BY <2>1 DEF LostForReason
<1> QED BY <1>4, <1>5, <1>7, <1>8, <1>9, <1>10 DEF CaptureInv

(* Entrants as a racecard prints them, with their prefectures converted.   *)
LEMMA KeptAreEntrants ==
    ASSUME NEW rows \in [Cars -> Entrant]
    PROVE  /\ Kept(rows) \in Seq(Entrant) /\ Len(Kept(rows)) = Riders
           /\ \A c \in Cars : Kept(rows)[c].form = rows[c].form
<1>1. Riders \in Nat /\ Cars = 1..Riders /\ DOMAIN rows = 1..Riders
  BY CaptureAssumption DEF Cars
<1>2. ASSUME NEW c \in Cars PROVE Kept(rows)[c] \in Entrant /\ Kept(rows)[c].form = rows[c].form
  <2>1. rows[c] \in Entrant /\ Canon[rows[c].group] \in Group
    BY CaptureAssumption DEF Entrant
  <2>2. Kept(rows)[c] = [rows[c] EXCEPT !.group = Canon[rows[c].group]]
    BY <1>1 DEF Kept
  <2> QED BY <2>1, <2>2 DEF Entrant
<1>3. Kept(rows) \in [1..Riders -> Entrant]
  BY <1>1, <1>2 DEF Kept
<1> QED BY <1>1, <1>2, <1>3

LEMMA BeginsKeep ==
    ASSUME CaptureInv, BeginCard \/ BeginBatch \/ \E k \in {"v1", "v2"}, e \in Rows : BeginLocator(k, e)
    PROVE  CaptureInv'
<1>1. World /\ time \in Nat
  BY DEF CaptureInv, World
<1>2. CASE BeginCard
  <2>1. Begin("card", "discovery", <<>>, 0) /\ card' = card
    BY <1>2 DEF BeginCard
  <2>2. <<>> \in Seq(Entrant) /\ 0 \in 0..time
    BY <1>1
  <2> QED BY <1>1, <2>1, <2>2, BeginKeeps DEF World
<1>3. CASE BeginBatch
  <2>1. PICK rows \in IF card.entrants = Absent THEN Racecards ELSE {card.entrants} :
          /\ card' = [card EXCEPT !.entrants = rows]
          /\ Begin("batch", IF ValidSheet(Kept(rows)) THEN "landing" ELSE "failed", Kept(rows), card.from)
    BY <1>3 DEF BeginBatch
  <2>2. card # Absent /\ card.entrants \in [Cars -> Entrant] \cup {Absent} /\ card.from \in 0..time
    BY <1>1, <1>3 DEF World, BeginBatch
  <2>3. rows \in [Cars -> Entrant]
    BY <2>1, <2>2, RacecardAssumption
  <2>4. Kept(rows) \in Seq(Entrant) /\ Len(Kept(rows)) = Riders
    BY <2>3, KeptAreEntrants
  <2>5. card'.entrants = rows /\ card'.from = card.from
    BY <2>1
  <2> QED BY <1>1, <2>1, <2>2, <2>3, <2>4, <2>5, BeginKeeps
<1>4. CASE \E k \in {"v1", "v2"}, e \in Rows : BeginLocator(k, e)
  <2>1. PICK k \in {"v1", "v2"}, e \in Entrant : BeginLocator(k, e)
    BY <1>4, RacecardAssumption DEF Rows
  <2>2. <<e>> \in Seq(Entrant) /\ Len(<<e>>) = 1 /\ ValidSheet(<<e>>) /\ time \in 0..time
    BY <1>1 DEF ValidSheet
  <2>3. Begin(k, "landing", <<e>>, time) /\ card' = card
    BY <2>1 DEF BeginLocator
  <2> QED BY <1>1, <2>2, <2>3, BeginKeeps DEF World
<1> QED BY <1>2, <1>3, <1>4

(* The racecard: it is nobody's lookup.                                    *)
LEMMA CardKeeps == ASSUME CaptureInv, Discover \/ FetchCard PROVE CaptureInv'
<1>1. JobShape /\ JobTimes /\ World /\ job.kind = "card" /\ ~ LooksUp
  BY DEF CaptureInv, Discover, FetchCard, LooksUp
<1>2. ASSUME NEW late, Asked(late, Fails) PROVE CaptureInv'
  BY <1>1, <1>2, FailsKeep
<1>3. ASSUME NEW late, NEW here \in {"pdf", "passed"}, NEW n, n = [job EXCEPT !.pc = here]
      PROVE  IsJob(n) /\ Carried(n) /\ n.pc = here /\ n.started = job.started /\ n.profiles = job.profiles
  <2>1. n = [kind |-> job.kind, pc |-> here, sheet |-> job.sheet, from |-> job.from,
              started |-> job.started, last |-> job.last, left |-> job.left, found |-> job.found,
              profiles |-> job.profiles, asked |-> job.asked, closest |-> job.closest,
              until |-> job.until, denied |-> job.denied, edits |-> job.edits]
    BY <1>1, <1>3 DEF JobShape
  <2> QED BY <2>1 DEF IsJob, Carried
<1>4. ASSUME NEW here \in {"pdf", "passed"}, IsJob(job'), job'.kind = "card", job'.pc = here,
             job'.sheet = job.sheet, job'.profiles = job.profiles, job'.asked = job.asked + 1,
             JobTimes', World'
      PROVE  CaptureInv'
  <2>1. ~ LooksUp' /\ job'.asked \in Nat
    BY <1>1, <1>4 DEF LooksUp, JobShape
  <2>2. JobShape'
    BY <1>1, <1>4, <2>1 DEF JobShape, IsJob, Looking
  <2>3. OfTheCard' /\ Searching' /\ Reading' /\ LostForReason'
    BY <1>4, <2>1 DEF OfTheCard, Searching, Reading, LostForReason
  <2> QED BY <1>4, <2>2, <2>3 DEF CaptureInv
<1>5. CASE Discover
  <2>1. PICK late \in 0..MaxDelay : Asked(late, [job EXCEPT !.pc = "pdf"]) \/ Asked(late, Fails)
    BY <1>5 DEF Discover
  <2>2. CASE Asked(late, [job EXCEPT !.pc = "pdf"])
    <3>1. PICK n : n = [job EXCEPT !.pc = "pdf"]
      OBVIOUS
    <3>2. IsJob(n) /\ Carried(n) /\ n.pc = "pdf" /\ n.started = job.started /\ n.profiles = job.profiles
      BY <1>3, <3>1
    <3>3. Answered(late, n) /\ UNCHANGED card
      BY <1>1, <2>2, <3>1, <3>2, AskedIsAnswered
    <3>4. n.started \in 0..time'
      BY <1>1, <3>2, <3>3 DEF World, JobTimes, Answered
    <3>5. JobTimes' /\ World'
      BY <1>1, <3>2, <3>3, <3>4, AnsweredInOrder
    <3>6. IsJob(job') /\ job'.kind = "card" /\ job'.pc = "pdf" /\ job'.sheet = job.sheet
          /\ job'.profiles = job.profiles /\ job'.asked = job.asked + 1
      BY <1>1, <3>2, <3>3, Zenon DEF Answered, Carried
    <3> QED BY <1>4, <3>5, <3>6
  <2> QED BY <1>2, <2>1, <2>2
<1>6. CASE FetchCard
  <2>1. PICK late \in 0..MaxDelay :
          \/ Asked(late, Fails)
          \/ /\ LimiterAllows /\ time' = SentAt + late /\ card' = [entrants |-> Absent, from |-> SentAt]
             /\ job' = Noted([job EXCEPT !.pc = "passed"], SentAt, late)
             /\ UNCHANGED <<site, edits, jobs>>
    BY <1>6 DEF FetchCard
  <2>2. CASE /\ LimiterAllows /\ time' = SentAt + late /\ card' = [entrants |-> Absent, from |-> SentAt]
             /\ job' = Noted([job EXCEPT !.pc = "passed"], SentAt, late)
             /\ UNCHANGED <<site, edits, jobs>>
    <3>1. PICK n : n = [job EXCEPT !.pc = "passed"]
      OBVIOUS
    <3>2. IsJob(n) /\ Carried(n) /\ n.pc = "passed" /\ n.started = job.started /\ n.profiles = job.profiles
      BY <1>3, <3>1
    <3>3. Answered(late, n)
      BY <1>1, <2>2, <3>1, <3>2, NotedIsAnswered
    <3>4. n.started \in 0..time'
      BY <1>1, <3>2, <3>3 DEF World, JobTimes, Answered
    <3>5. JobTimes'
      BY <1>1, <3>2, <3>3, <3>4, AnsweredInOrder
    <3>6. IsJob(job') /\ job'.kind = "card" /\ job'.pc = "passed" /\ job'.sheet = job.sheet
          /\ job'.profiles = job.profiles /\ job'.asked = job.asked + 1
      BY <1>1, <3>2, <3>3, Zenon DEF Answered, Carried
    <3>7. World'
      <4>1. card'.entrants = Absent /\ card'.from = SentAt /\ UNCHANGED <<site, edits, jobs>>
        BY <2>2
      <4>2. SentAt \in 0..time' /\ time' \in Nat
        BY <1>1, <3>3, SpacingKept DEF Answered
      <4> QED BY <1>1, <4>1, <4>2 DEF World
    <3> QED BY <1>4, <3>5, <3>6, <3>7
  <2> QED BY <1>2, <2>1, <2>2
<1> QED BY <1>5, <1>6

LEMMA GroupsAreFinite == ASSUME JobShape PROVE IsFiniteSet(Groups) /\ Cardinality(Groups) \in Nat
<1>1. Groups = {job.sheet[c].group : c \in DOMAIN job.sheet}
  BY DEF Groups, GroupsOf
<1>2. IsFiniteSet(DOMAIN job.sheet)
  <2>1. DOMAIN job.sheet = 1..Len(job.sheet) /\ Len(job.sheet) \in Int /\ 1 \in Int
    BY DEF JobShape
  <2> QED BY <2>1, FS_Interval
<1>3. IsFiniteSet(Groups)
  <2> DEFINE group == [c \in DOMAIN job.sheet |-> job.sheet[c].group]
  <2>1. group \in Surjection(DOMAIN job.sheet, Groups)
    <3>1. group \in [DOMAIN job.sheet -> Groups] /\ \A g \in Groups : \E c \in DOMAIN job.sheet : group[c] = g
      BY <1>1
    <3> QED BY <3>1 DEF Surjection
  <2> QED BY <1>2, <2>1, FS_Surjection
<1> QED BY <1>3, FS_CardinalityType

(* The search page: every group is yet to be searched.                     *)
LEMMA LandingKeeps == ASSUME CaptureInv, Landing PROVE CaptureInv'
<1>1. JobShape /\ JobTimes /\ World /\ job.pc = "landing" /\ LooksUp /\ ValidSheet(job.sheet)
  BY DEF CaptureInv, Landing, JobShape, OfTheCard, Looking
<1>2. PICK n : n = [job EXCEPT !.pc = "search", !.left = Groups,
                               !.found = [c \in DOMAIN job.sheet |-> Absent]]
  OBVIOUS
<1>3. PICK late \in 0..MaxDelay : IF job.kind = "v1" THEN Asked(late, n) ELSE AskedInTime(late, n)
  BY <1>2, Zenon DEF Landing, Groups
<1>4. n = [kind |-> job.kind, pc |-> "search", sheet |-> job.sheet, from |-> job.from,
              started |-> job.started, last |-> job.last, left |-> Groups,
              found |-> [c \in DOMAIN job.sheet |-> Absent],
              profiles |-> job.profiles, asked |-> job.asked, closest |-> job.closest,
              until |-> job.until, denied |-> job.denied, edits |-> job.edits]
  BY <1>1, <1>2 DEF JobShape
<1>5. IsJob(n) /\ Carried(n) /\ n.pc = "search" /\ n.started = job.started /\ n.profiles = job.profiles
      /\ n.left = Groups /\ n.found = [c \in DOMAIN job.sheet |-> Absent]
  BY <1>4 DEF IsJob, Carried
<1>6. SUFFICES ASSUME Asked(late, n), job.kind # "v1" => ~ TooLate(SentAt + late) PROVE CaptureInv'
  BY <1>3, <1>5, InTimeOrFailed
<1>7. n.started \in 0..(SentAt + late)
  BY <1>1, <1>5, SpacingKept, CaptureAssumption DEF JobTimes, World
<1>8. /\ JobTimes' /\ World' /\ JobShape' /\ OfTheCard' /\ LostForReason'
      /\ job'.kind = job.kind /\ job'.sheet = job.sheet /\ job'.pc = "search"
      /\ job'.found = n.found /\ job'.left = n.left /\ job'.profiles = job.profiles
      /\ job'.asked = job.asked + 1
  <2>1. job.pc \in Looking /\ n.pc = "search" /\ n.profiles \in Seq(Profile)
    BY <1>1, <1>5 DEF Looking, JobShape
  <2>2. job.kind = "batch" => n.started = job.started /\ ~ TooLate(SentAt + late)
    BY <1>5, <1>6
  <2> QED BY <1>1, <1>5, <1>6, <1>7, <2>1, <2>2, GoesOn
<1>9. Reading'
  <2>1. job'.left \subseteq Groups'
    BY <1>5, <1>8 DEF Groups, GroupsOf
  <2> QED BY <1>8, <2>1 DEF Reading
<1>10. Searching'
  <2>1. SUFFICES ASSUME job.kind \in {"batch", "v2"} PROVE Searching'
    BY <1>8 DEF Searching
  <2>2. job.asked = 0 /\ job.profiles = <<>>
    BY <1>1, <2>1 DEF CaptureInv, Searching
  <2>3. Groups' = Groups /\ Groups # {}
    <3>1. 1 \in DOMAIN job.sheet
      BY <1>1, CaptureAssumption DEF JobShape
    <3> QED BY <1>8, <3>1 DEF Groups, GroupsOf
  <2>4. FoundBut(job.left)'
    <3>1. \A c \in DOMAIN job.sheet : job.sheet[c].group \in Groups
      BY DEF Groups, GroupsOf
    <3>2. job'.found = [c \in DOMAIN job'.sheet |-> Absent] /\ job'.left = Groups
      BY <1>5, <1>8
    <3>3. job'.found \in [DOMAIN job'.sheet -> Snum \cup {Absent}]
      BY <3>2
    <3>4. \A c \in DOMAIN job'.sheet : job'.sheet[c].group \in job'.left /\ job'.found[c] = Absent
      BY <1>8, <3>1, <3>2
    <3> QED BY <3>3, <3>4 DEF FoundBut
  <2>5. Cardinality(Groups) - Cardinality(Groups) = 0
    BY <1>1, GroupsAreFinite, FS_CardinalityType
  <2> QED BY <1>5, <1>8, <2>2, <2>3, <2>4, <2>5 DEF Searching
<1> QED BY <1>8, <1>9, <1>10 DEF CaptureInv

(* A search that finds nobody to assign: somebody is not listed once.      *)
LEMMA NobodyAssigned ==
    ASSUME CaptureInv, Steady, NEW g, job.pc = "search", job.kind # "v1", g \in job.left,
           \A c \in DOMAIN job.sheet : Findable(job.sheet[c])
    PROVE  /\ Extractable(Listed(g))
           /\ \E f \in [DOMAIN job.sheet -> Snum \cup {Absent}] : Assigned(f, Listed(g), g)
<1>1. JobShape /\ LooksUp /\ job.kind \in {"batch", "v2"} /\ ValidSheet(job.sheet)
  BY DEF CaptureInv, JobShape, OfTheCard, Looking, LooksUp
<1>2. job.left \subseteq Groups /\ FoundBut(job.left)
  BY <1>1 DEF CaptureInv, Searching
<1>3. PICK m \in DOMAIN job.sheet : job.sheet[m].group = g
  BY <1>2 DEF Groups, GroupsOf
<1>4. Extractable(Listed(g))
  BY <1>3 DEF Findable
<1>5. \A c \in Members(g) : \E s \in Listed(g) : Named(Listed(g), job.sheet[c]) = {s}
  BY DEF Members, Findable
<1>6. Listed(g) \subseteq Snum /\ Members(g) \subseteq DOMAIN job.sheet
  BY DEF Listed, Members
<1> DEFINE f == [c \in DOMAIN job.sheet |-> IF c \in Members(g)
                    THEN CHOOSE s \in Listed(g) : Named(Listed(g), job.sheet[c]) = {s}
                    ELSE job.found[c]]
<1>7. \A c \in Members(g) : f[c] \in Listed(g) /\ Named(Listed(g), job.sheet[c]) = {f[c]}
  BY <1>5, <1>6
<1>8. \A c \in DOMAIN job.sheet \ Members(g) : f[c] = job.found[c]
  OBVIOUS
<1>9. job.found \in [DOMAIN job.sheet -> Snum \cup {Absent}]
  BY <1>2 DEF FoundBut
<1>10. f \in [DOMAIN job.sheet -> Snum \cup {Absent}]
  <2>1. \A c \in DOMAIN job.sheet : f[c] \in Snum \cup {Absent}
    BY <1>6, <1>7, <1>8, <1>9
  <2> QED BY <2>1
<1> HIDE DEF f
<1>11. ASSUME NEW c \in Members(g), NEW d \in DOMAIN job.sheet, c # d PROVE f[c] # f[d]
  <2>1. f[c] \in Named(Listed(g), job.sheet[c]) /\ f[c] \in Listed(g) /\ f[c] \in Snum
    BY <1>6, <1>7
  <2>2. CASE d \in Members(g)
    <3> SUFFICES ASSUME f[c] = f[d] PROVE FALSE
      OBVIOUS
    <3>1. f[c] \in Named(Listed(g), job.sheet[d])
      BY <1>7, <2>2
    <3>2. job.sheet[c].name = job.sheet[d].name /\ job.sheet[c].group = job.sheet[d].group
      BY <2>1, <2>2, <3>1 DEF Named, Members
    <3>3. Key(job.sheet[c]) = Key(job.sheet[d])
      BY <3>2 DEF Key
    <3>4. c \in DOMAIN job.sheet
      BY <1>6
    <3>5. c = d
      BY <1>1, <3>3, <3>4 DEF ValidSheet
    <3> QED BY <1>11, <3>5
  <2>3. CASE d \notin Members(g)
    <3>1. f[d] = job.found[d] /\ job.sheet[d].group # g
      BY <1>8, <2>3 DEF Members
    <3>2. CASE job.sheet[d].group \in job.left
      <4>1. job.found[d] = Absent
        BY <1>2, <3>2 DEF FoundBut
      <4> QED BY <2>1, <3>1, <4>1, CaptureAssumption
    <3>3. CASE job.sheet[d].group \notin job.left
      <4> SUFFICES ASSUME f[c] = f[d] PROVE FALSE
        OBVIOUS
      <4>1. Named(Listed(job.sheet[d].group), job.sheet[d]) = {job.found[d]}
        BY <1>2, <3>3 DEF FoundBut
      <4>2. /\ site[job.found[d]].name = job.sheet[d].name
            /\ Canon[site[job.found[d]].group] = Canon[job.sheet[d].group]
        BY <4>1 DEF Named, Listed
      <4>3. site[f[c]].name = job.sheet[c].name /\ Canon[site[f[c]].group] = Canon[job.sheet[c].group]
        BY <2>1 DEF Listed, Named, Members
      <4>4. Key(job.sheet[c]) = Key(job.sheet[d])
        BY <3>1, <4>2, <4>3 DEF Key
      <4>5. c \in DOMAIN job.sheet
        BY <1>6
      <4>6. c = d
        BY <1>1, <4>4, <4>5 DEF ValidSheet
      <4> QED BY <1>11, <4>6
    <3> QED BY <3>2, <3>3
  <2> QED BY <2>2, <2>3
<1>12. Assigned(f, Listed(g), g)
  BY <1>7, <1>8, <1>11 DEF Assigned
<1> QED BY <1>4, <1>10, <1>12

(* A search that succeeds: its group is not left any more.                 *)
LEMMA GroupFound ==
    ASSUME CaptureInv, NEW g \in job.left, NEW f \in [DOMAIN job.sheet -> Snum \cup {Absent}],
           FoundBut(job.left), Assigned(f, Listed(g), g),
           UNCHANGED site, job'.sheet = job.sheet, job'.found = f, Steady' = Steady
    PROVE  \A left : left = job.left \ {g} => FoundBut(left)'
<1> SUFFICES ASSUME NEW left, left = job.left \ {g} PROVE FoundBut(left)'
  OBVIOUS
<1>1. \A c \in Members(g) : /\ Named(Listed(g), job.sheet[c]) = {f[c]} /\ job.sheet[c].group = g
                            /\ c \in DOMAIN job.sheet
  BY DEF Assigned, Members
<1>2. \A c \in DOMAIN job.sheet \ Members(g) : f[c] = job.found[c] /\ job.sheet[c].group # g
  BY DEF Assigned, Members
<1>3. \A c \in Members(g), d \in DOMAIN job.sheet : c # d => f[c] # f[d]
  BY DEF Assigned
<1>4. ASSUME NEW c \in DOMAIN job.sheet
      PROVE  IF job.sheet[c].group \in left THEN f[c] = Absent
             ELSE /\ f[c] \in Snum /\ \A d \in DOMAIN job.sheet : f[c] = f[d] => c = d
                  /\ Steady => Named(Listed(job.sheet[c].group), job.sheet[c]) = {f[c]}
  <2>1. CASE c \in Members(g)
    <3>1. f[c] \in Snum
      BY <1>1, <2>1 DEF Named, Listed
    <3> QED BY <1>1, <1>3, <2>1, <3>1
  <2>2. CASE c \notin Members(g) /\ job.sheet[c].group \in left
    <3>1. job.sheet[c].group \in job.left
      BY <2>2
    <3>2. job.found[c] = Absent
      BY <3>1 DEF FoundBut
    <3> QED BY <1>2, <2>2, <3>2
  <2>3. CASE c \notin Members(g) /\ job.sheet[c].group \notin left
    <3>1. job.sheet[c].group \notin job.left /\ f[c] = job.found[c]
      BY <1>2, <2>3
    <3>2. /\ f[c] \in Snum /\ \A d \in DOMAIN job.sheet : job.found[c] = job.found[d] => c = d
          /\ Steady => Named(Listed(job.sheet[c].group), job.sheet[c]) = {f[c]}
      BY <3>1 DEF FoundBut
    <3>3. ASSUME NEW d \in DOMAIN job.sheet, f[c] = f[d] PROVE c = d
      <4>1. CASE d \in Members(g)
        BY <1>3, <3>3, <4>1
      <4>2. CASE d \notin Members(g)
        BY <1>2, <3>1, <3>2, <3>3, <4>2
      <4> QED BY <4>1, <4>2
    <3> QED BY <2>3, <3>2, <3>3
  <2> QED BY <2>1, <2>2, <2>3
<1>5. job'.found \in [DOMAIN job'.sheet -> Snum \cup {Absent}]
  OBVIOUS
<1>6. ASSUME NEW c \in DOMAIN job'.sheet
      PROVE  IF job'.sheet[c].group \in left THEN job'.found[c] = Absent
             ELSE /\ job'.found[c] \in Snum
                  /\ \A d \in DOMAIN job'.sheet : job'.found[c] = job'.found[d] => c = d
                  /\ Steady' => Named(Listed(job.sheet[c].group), job.sheet[c])' = {job'.found[c]}
  BY <1>4, SiteStays
<1> QED BY <1>5, <1>6 DEF FoundBut

(* A prefecture that no option is converted as: nothing is asked.          *)
LEMMA NoOptionKeeps == ASSUME CaptureInv, NEW g \in Group, NoOption(g) PROVE CaptureInv'
<1>1. JobShape /\ JobTimes /\ World /\ Searching /\ Reading
      /\ job.pc = "search" /\ g \in job.left /\ ~ Selectable(g)
      /\ job' = Fails /\ UNCHANGED <<site, edits, time, card, jobs>>
  BY DEF CaptureInv, NoOption
<1>2. job.left \subseteq Groups
  BY <1>1 DEF Searching, Reading, JobShape, LooksUp, Looking
<1>3. PICK c \in DOMAIN job.sheet : job.sheet[c].group = g
  BY <1>1, <1>2 DEF Groups, GroupsOf
<1>4. ~ Findable(job.sheet[c])
  BY <1>1, <1>3 DEF Findable
<1>5. Reason(time')
  BY <1>3, <1>4, Zenon DEF Reason
<1>6. job' = [kind |-> job.kind, pc |-> "failed", sheet |-> job.sheet, from |-> job.from,
              started |-> job.started, last |-> job.last, left |-> job.left, found |-> job.found,
              profiles |-> job.profiles, asked |-> job.asked, closest |-> job.closest,
              until |-> job.until, denied |-> job.denied, edits |-> job.edits]
  BY <1>1 DEF Fails, JobShape
<1>7. /\ IsJob(job') /\ job'.kind = job.kind /\ job'.pc = "failed" /\ job'.sheet = job.sheet
      /\ job'.from = job.from /\ job'.started = job.started /\ job'.last = job.last
      /\ job'.profiles = job.profiles /\ job'.asked = job.asked /\ job'.closest = job.closest
      /\ job'.until = job.until /\ job'.edits = job.edits
  BY <1>6 DEF IsJob
<1>8. JobTimes' /\ World'
  BY <1>1, <1>7 DEF JobTimes, World, Pause
<1>9. job'.asked \in Nat
  BY <1>1, <1>7 DEF JobShape
<1> QED BY <1>1, <1>5, <1>7, <1>8, <1>9, StoppedKeeps

LEMMA SearchKeeps == ASSUME CaptureInv, NEW g \in Group, Search(g) PROVE CaptureInv'
<1>1. JobShape /\ JobTimes /\ World /\ job.pc = "search" /\ job.kind # "v1" /\ g \in job.left
  BY Zenon DEF CaptureInv, Search
<1>2. LooksUp /\ job.kind \in {"batch", "v2"}
  BY <1>1 DEF JobShape, Looking, LooksUp
<1>3. /\ job.left # {} /\ job.left \subseteq Groups /\ FoundBut(job.left) /\ job.profiles = <<>>
      /\ job.asked = 1 + Cardinality(Groups) - Cardinality(job.left)
  BY <1>1, <1>2 DEF CaptureInv, Searching
<1> DEFINE good == {f \in [DOMAIN job.sheet -> Snum \cup {Absent}] : Assigned(f, Listed(g), g)}
           next(f) == [job EXCEPT !.found = f, !.left = job.left \ {g},
                                  !.pc = IF job.left = {g} THEN "profiles" ELSE "search"]
<1>4. PICK late \in 0..MaxDelay :
        \/ (~ Extractable(Listed(g)) \/ good = {}) /\ Asked(late, Fails)
        \/ \E f \in good : Extractable(Listed(g)) /\ AskedInTime(late, next(f))
  BY Zenon DEF Search
<1>5. CASE (~ Extractable(Listed(g)) \/ good = {}) /\ Asked(late, Fails)
  <2>1. Steady => \E c \in DOMAIN job.sheet : ~ Findable(job.sheet[c])
    BY <1>1, <1>5, NobodyAssigned
  <2>2. Steady => Reason(SentAt + late)
    BY <2>1, Zenon DEF Reason
  <2> QED BY <1>5, <2>2, FailsKeep
<1>6. CASE \E f \in good : Extractable(Listed(g)) /\ AskedInTime(late, next(f))
  <2>1. PICK f \in good : AskedInTime(late, next(f))
    BY <1>6
  <2>2. f \in [DOMAIN job.sheet -> Snum \cup {Absent}] /\ Assigned(f, Listed(g), g)
    OBVIOUS
  <2>3. PICK here : here = IF job.left = {g} THEN "profiles" ELSE "search"
    OBVIOUS
  <2>4. PICK n : n = next(f)
    OBVIOUS
  <2>5. n = [kind |-> job.kind, pc |-> here, sheet |-> job.sheet, from |-> job.from,
              started |-> job.started, last |-> job.last, left |-> job.left \ {g},
              found |-> f, profiles |-> job.profiles, asked |-> job.asked, closest |-> job.closest,
              until |-> job.until, denied |-> job.denied, edits |-> job.edits]
    BY <1>1, <2>3, <2>4 DEF JobShape
  <2>6. IsJob(n) /\ Carried(n) /\ n.pc = here /\ n.started = job.started /\ n.profiles = job.profiles
        /\ n.left = job.left \ {g} /\ n.found = f
    BY <2>5 DEF IsJob, Carried
  <2>7. SUFFICES ASSUME Asked(late, n), ~ TooLate(SentAt + late) PROVE CaptureInv'
    BY <2>1, <2>4, <2>6, InTimeOrFailed
  <2>8. n.started \in 0..(SentAt + late)
    BY <1>1, <2>6, SpacingKept, CaptureAssumption DEF JobTimes, World
  <2>9. /\ JobTimes' /\ World' /\ JobShape' /\ OfTheCard' /\ LostForReason'
        /\ job'.kind = job.kind /\ job'.sheet = job.sheet /\ job'.pc = here /\ Steady' = Steady
        /\ job'.found = f /\ job'.left = job.left \ {g} /\ job'.profiles = job.profiles
        /\ job'.asked = job.asked + 1 /\ UNCHANGED site
    <3>1. job.pc \in Looking /\ n.pc \in {"search", "profiles"} /\ n.profiles \in Seq(Profile)
      BY <1>1, <2>3, <2>6 DEF Looking, JobShape
    <3> QED BY <1>1, <1>2, <2>6, <2>7, <2>8, <3>1, GoesOn
  <2>10. Reading'
    BY <1>1, <2>9 DEF Reading
  <2>11. Groups' = Groups /\ job'.left \subseteq Groups /\ (job'.left = {} <=> job.left = {g})
    BY <1>1, <1>3, <2>9 DEF Groups, GroupsOf
  <2>12. FoundBut(job.left)'
    BY <1>1, <1>3, <2>2, <2>9, GroupFound
  <2>13. job'.asked = 1 + Cardinality(Groups) - Cardinality(job'.left)
    <3>1. IsFiniteSet(Groups) /\ Cardinality(Groups) \in Nat
      BY <1>1, GroupsAreFinite
    <3>2. IsFiniteSet(job.left)
      BY <1>3, <3>1, FS_Subset
    <3>3. Cardinality(job.left \ {g}) = Cardinality(job.left) - 1 /\ Cardinality(job.left) \in Nat
      BY <1>1, <3>2, FS_RemoveElement, FS_CardinalityType
    <3> QED BY <1>3, <2>9, <3>1, <3>3
  <2>14. Searching'
    <3>1. CASE here = "search"
      <4>1. job'.left # {}
        BY <2>3, <2>11, <3>1
      <4> QED BY <1>3, <2>9, <2>11, <2>12, <2>13, <3>1, <4>1 DEF Searching
    <3>2. CASE here = "profiles"
      <4>1. job'.left = {}
        BY <2>3, <2>11, <3>2
      <4>2. Cardinality(job'.left) = 0 /\ Cardinality(Groups) \in Nat
        BY <1>1, <4>1, FS_EmptySet, GroupsAreFinite
      <4>3. FoundBut({})'
        BY <2>12, <4>1
      <4>4. job'.profiles = <<>> /\ Len(job'.profiles) = 0 /\ Len(job'.sheet) \in Nat /\ Len(job'.sheet) # 0
        <5>1. Len(job.sheet) = IF job.kind = "batch" THEN Riders ELSE 1
          BY <1>1, <1>2 DEF JobShape
        <5>2. Len(job.sheet) \in Nat /\ Len(job.sheet) # 0
          BY <5>1, CaptureAssumption
        <5> QED BY <1>3, <2>9, <5>2
      <4>5. Profiled'
        BY <4>4 DEF Profiled
      <4>6. job'.asked = 1 + Cardinality(Groups) + Len(job'.profiles)
        BY <2>13, <4>2, <4>4
      <4> QED BY <2>9, <2>11, <3>2, <4>3, <4>4, <4>5, <4>6 DEF Searching
    <3> QED BY <2>3, <3>1, <3>2
  <2> QED BY <2>9, <2>10, <2>14 DEF CaptureInv
<1> QED BY <1>4, <1>5, <1>6

LEMMA FoundStays ==
    ASSUME NEW left, FoundBut(left), UNCHANGED site, job'.sheet = job.sheet, job'.found = job.found,
           Steady' => Steady
    PROVE  FoundBut(left)'
<1>1. job'.found \in [DOMAIN job'.sheet -> Snum \cup {Absent}]
  BY DEF FoundBut
<1>2. ASSUME NEW c \in DOMAIN job'.sheet
      PROVE  IF job'.sheet[c].group \in left THEN job'.found[c] = Absent
             ELSE /\ job'.found[c] \in Snum
                  /\ \A d \in DOMAIN job'.sheet : job'.found[c] = job'.found[d] => c = d
                  /\ Steady' => Named(Listed(job.sheet[c].group), job.sheet[c])' = {job'.found[c]}
  <2>1. c \in DOMAIN job.sheet /\ job'.sheet[c] = job.sheet[c] /\ job'.found[c] = job.found[c]
    BY <1>2
  <2>2. IF job.sheet[c].group \in left THEN job.found[c] = Absent
        ELSE /\ job.found[c] \in Snum
             /\ \A d \in DOMAIN job.sheet : job.found[c] = job.found[d] => c = d
             /\ Steady => Named(Listed(job.sheet[c].group), job.sheet[c]) = {job.found[c]}
    BY <2>1 DEF FoundBut
  <2>3. Named(Listed(job.sheet[c].group), job.sheet[c])' = Named(Listed(job.sheet[c].group), job.sheet[c])
    BY SiteStays
  <2> QED BY <2>1, <2>2, <2>3
<1> QED BY <1>1, <1>2 DEF FoundBut

(* The next profile: it is that of the entrant, or somebody is not found.  *)
LEMMA ReadKeeps == ASSUME CaptureInv, ReadProfile PROVE CaptureInv'
<1>1. JobShape /\ JobTimes /\ World /\ job.pc = "profiles"
  BY DEF CaptureInv, ReadProfile
<1>2. LooksUp /\ job.kind \in {"batch", "v2"}
  BY <1>1 DEF JobShape, Looking, LooksUp
<1>3. /\ FoundBut({}) /\ Profiled /\ Len(job.profiles) # Len(job.sheet)
      /\ job.asked = 1 + Cardinality(Groups) + Len(job.profiles)
  BY <1>1, <1>2 DEF CaptureInv, Searching
<1>4. PICK c : c = Len(job.profiles) + 1
  OBVIOUS
<1>5. PICK s : s = job.found[c]
  OBVIOUS
<1>6. c \in DOMAIN job.sheet /\ c \in Nat /\ Len(job.profiles) \in Nat /\ Len(job.sheet) \in Nat
      /\ DOMAIN job.sheet = 1..Len(job.sheet)
  BY <1>1, <1>3, <1>4 DEF JobShape, Profiled
<1>7. s \in Snum /\ (Steady => Named(Listed(job.sheet[c].group), job.sheet[c]) = {s})
  BY <1>3, <1>5, <1>6 DEF FoundBut
<1>8. PICK late \in 0..MaxDelay :
        IF ~ Verified(s, job.sheet[c]) THEN Asked(late, Fails)
        ELSE AskedInTime(late, [job EXCEPT !.profiles = Append(job.profiles, site[s]),
                                           !.pc = IF c = Len(job.sheet) THEN "passed" ELSE "profiles"])
  BY <1>4, <1>5, Zenon DEF ReadProfile
<1>9. CASE ~ Verified(s, job.sheet[c])
  <2>1. ASSUME Steady, Findable(job.sheet[c]) PROVE FALSE
    <3>1. PICK t \in Listed(job.sheet[c].group) :
            Named(Listed(job.sheet[c].group), job.sheet[c]) = {t} /\ Parsed(t)
      BY <2>1 DEF Findable
    <3>2. t = s
      BY <1>7, <2>1, <3>1
    <3>3. site[s].name = job.sheet[c].name /\ Canon[site[s].group] = Canon[job.sheet[c].group]
      BY <3>1, <3>2 DEF Named, Listed
    <3> QED BY <1>9, <3>1, <3>2, <3>3 DEF Verified, Key
  <2>2. Steady => Reason(SentAt + late)
    BY <1>6, <2>1, Zenon DEF Reason
  <2>3. Asked(late, Fails)
    BY <1>8, <1>9
  <2> QED BY <2>2, <2>3, FailsKeep
<1>10. CASE Verified(s, job.sheet[c])
  <2>1. PICK here : here = IF c = Len(job.sheet) THEN "passed" ELSE "profiles"
    OBVIOUS
  <2>2. PICK read : read = Append(job.profiles, site[s])
    OBVIOUS
  <2>3. PICK n : n = [job EXCEPT !.profiles = read, !.pc = here]
    OBVIOUS
  <2>4. n = [kind |-> job.kind, pc |-> here, sheet |-> job.sheet, from |-> job.from,
              started |-> job.started, last |-> job.last, left |-> job.left,
              found |-> job.found, profiles |-> read, asked |-> job.asked, closest |-> job.closest,
              until |-> job.until, denied |-> job.denied, edits |-> job.edits]
    BY <1>1, <2>3 DEF JobShape
  <2>5. IsJob(n) /\ Carried(n) /\ n.pc = here /\ n.started = job.started /\ n.profiles = read
        /\ n.left = job.left /\ n.found = job.found
    BY <2>4 DEF IsJob, Carried
  <2>6. AskedInTime(late, n)
    BY <1>8, <1>10, <2>1, <2>2, <2>3
  <2>7. SUFFICES ASSUME Asked(late, n), ~ TooLate(SentAt + late) PROVE CaptureInv'
    BY <2>5, <2>6, InTimeOrFailed
  <2>8. n.started \in 0..(SentAt + late)
    BY <1>1, <2>5, SpacingKept, CaptureAssumption DEF JobTimes, World
  <2>9. site[s] \in Profile /\ site[s].number = s /\ Key(site[s]) = Key(job.sheet[c])
    BY <1>1, <1>7, <1>10 DEF Verified, Parsed, World
  <2>10. read \in Seq(Profile) /\ Len(read) = c /\ DOMAIN read = 1..c
         /\ \A d \in 1..c : read[d] = IF d = c THEN site[s] ELSE job.profiles[d]
    <3>1. job.profiles \in Seq(Profile)
      BY <1>1 DEF JobShape
    <3> QED BY <1>4, <2>2, <2>9, <3>1
  <2>11. /\ JobTimes' /\ World' /\ JobShape' /\ OfTheCard' /\ LostForReason'
         /\ job'.kind = job.kind /\ job'.sheet = job.sheet /\ job'.pc = here /\ Steady' = Steady
         /\ job'.found = job.found /\ job'.profiles = read
         /\ job'.asked = job.asked + 1 /\ UNCHANGED site
    <3>1. job.pc \in Looking /\ n.pc \in {"profiles", "passed"} /\ n.profiles \in Seq(Profile)
      BY <1>1, <2>1, <2>5, <2>10 DEF Looking
    <3> QED BY <1>1, <1>2, <2>5, <2>7, <2>8, <3>1, GoesOn
  <2>12. Reading'
    BY <1>2, <2>11 DEF Reading
  <2>13. FoundBut({})'
    BY <1>3, <2>11, FoundStays
  <2>14. Profiled'
    <3>1. Len(job'.profiles) <= Len(job'.sheet)
      BY <1>3, <1>4, <1>6, <2>10, <2>11 DEF Profiled
    <3>2. ASSUME NEW d \in DOMAIN read
          PROVE  read[d].number = job.found[d] /\ Key(read[d]) = Key(job.sheet[d])
      <4>1. CASE d = c
        BY <1>5, <2>9, <2>10, <4>1
      <4>2. CASE d # c
        <5>1. d \in DOMAIN job.profiles
          <6>1. DOMAIN job.profiles = 1..Len(job.profiles)
            BY <1>1 DEF JobShape
          <6> QED BY <1>4, <1>6, <2>10, <3>2, <4>2, <6>1
        <5>2. read[d] = job.profiles[d]
          BY <2>10, <3>2, <4>2
        <5> QED BY <1>3, <5>1, <5>2 DEF Profiled
      <4> QED BY <4>1, <4>2
    <3>3. \A d \in DOMAIN job'.profiles : /\ job'.profiles[d].number = job'.found[d]
                                          /\ Key(job'.profiles[d]) = Key(job'.sheet[d])
      BY <2>11, <3>2
    <3> QED BY <3>1, <3>3 DEF Profiled
  <2>15. Groups' = Groups /\ Cardinality(Groups) \in Nat
    BY <1>1, <2>11, GroupsAreFinite DEF Groups, GroupsOf
  <2>16. job'.asked = 1 + Cardinality(Groups) + Len(job'.profiles)
    <3>1. Len(job'.profiles) = Len(job.profiles) + 1 /\ job'.asked = job.asked + 1
      BY <1>4, <2>10, <2>11
    <3> QED BY <1>3, <1>6, <2>15, <3>1
  <2>17. job'.pc = "profiles" <=> Len(job'.profiles) # Len(job'.sheet)
    BY <2>1, <2>10, <2>11
  <2>18. job'.pc \in {"profiles", "passed"}
    BY <2>1, <2>11
  <2>19. Searching'
    BY <2>13, <2>14, <2>15, <2>16, <2>17, <2>18 DEF Searching
  <2> QED BY <2>11, <2>12, <2>19 DEF CaptureInv
<1> QED BY <1>8, <1>9, <1>10

LEMMA FuseKeeps == ASSUME CaptureInv, Fuse PROVE CaptureInv'
<1>1. JobShape /\ JobTimes /\ World /\ OfTheCard /\ Searching
      /\ job.kind = "batch" /\ job.pc = "passed" /\ LooksUp /\ UNCHANGED <<site, edits, time, card, jobs>>
  BY DEF CaptureInv, Fuse, LooksUp
<1>2. PICK here \in {"fused", "failed"} :
        /\ job' = [job EXCEPT !.pc = here]
        /\ here = "failed" <=> ~ \A c \in Cars : /\ Key(job.sheet[c]) = PrintedKey(card.entrants[c])
                                               /\ job.profiles[c].form = job.sheet[c].form
  BY DEF Fuse
<1>3. job' = [kind |-> job.kind, pc |-> here, sheet |-> job.sheet, from |-> job.from,
              started |-> job.started, last |-> job.last, left |-> job.left,
              found |-> job.found, profiles |-> job.profiles, asked |-> job.asked,
              closest |-> job.closest, until |-> job.until, denied |-> job.denied, edits |-> job.edits]
  BY <1>1, <1>2 DEF JobShape
<1>4. /\ IsJob(job') /\ job'.kind = job.kind /\ job'.pc = here /\ job'.sheet = job.sheet
      /\ job'.from = job.from /\ job'.started = job.started /\ job'.last = job.last
      /\ job'.left = job.left /\ job'.found = job.found /\ job'.profiles = job.profiles
      /\ job'.asked = job.asked /\ job'.closest = job.closest /\ job'.until = job.until
      /\ job'.denied = job.denied /\ job'.edits = job.edits
  BY <1>3 DEF IsJob
<1>5. FoundBut({}) /\ Profiled /\ Len(job.profiles) = Len(job.sheet)
      /\ job.asked = 1 + Cardinality(Groups) + Len(job.profiles)
  BY <1>1 DEF Searching
<1>6. JobTimes' /\ World'
  BY <1>1, <1>4 DEF JobTimes, World, Pause
<1>7. CASE here = "failed"
  <2>2. Reason(time')
    <3>1. \E c \in Cars : \/ job.profiles[c].form # job.sheet[c].form
                         \/ Key(job.sheet[c]) # PrintedKey(card.entrants[c])
      BY <1>2, <1>7
    <3> QED BY <1>5, <3>1, Zenon DEF Reason
  <2>3. job'.asked \in Nat
    BY <1>1, <1>4 DEF JobShape
  <2> QED BY <1>1, <1>4, <1>6, <1>7, <2>2, <2>3, StoppedKeeps
<1>8. CASE here = "fused"
  <2>1. LooksUp' /\ Steady' = Steady /\ Groups' = Groups
    BY <1>1, <1>4 DEF LooksUp, Steady, Groups, GroupsOf
  <2>2. JobShape'
    BY <1>1, <1>4, <1>8, <2>1 DEF JobShape, IsJob, Looking
  <2>3. OfTheCard'
    <3>1. \A c \in Cars : /\ job.profiles[c].form = job.sheet[c].form
                         /\ Key(job.sheet[c]) = PrintedKey(card.entrants[c])
      BY <1>2, <1>8
    <3>2. \A c \in Cars : /\ job'.profiles[c].form = job'.sheet[c].form
                         /\ Key(job'.sheet[c]) = PrintedKey(card'.entrants[c])
      BY <1>1, <1>4, <3>1
    <3> QED BY <1>1, <1>4, <1>8, <2>1, <3>2 DEF OfTheCard, Looking, ValidSheet, Kept
  <2>4. FoundBut({})' /\ Profiled'
    <3>1. FoundBut({})'
      BY <1>1, <1>4, <1>5, <2>1, FoundStays
    <3>2. Profiled'
      BY <1>4, <1>5 DEF Profiled, Key
    <3> QED BY <3>1, <3>2
  <2>5. Searching'
    BY <1>1, <1>4, <1>5, <1>8, <2>1, <2>4 DEF Searching
  <2>6. Reading' /\ LostForReason'
    BY <1>1, <1>4, <1>8 DEF Reading, LostForReason
  <2> QED BY <1>6, <2>2, <2>3, <2>5, <2>6 DEF CaptureInv
<1> QED BY <1>2, <1>7, <1>8

(* The first locator's search: whoever is listed is a candidate.           *)
LEMMA SearchAllKeeps == ASSUME CaptureInv, SearchAll PROVE CaptureInv'
<1>1. JobShape /\ JobTimes /\ World /\ job.kind = "v1" /\ job.pc = "search" /\ LooksUp
  BY DEF CaptureInv, SearchAll, LooksUp
<1>2. PICK listed : listed = Listed(job.sheet[1].group)
  OBVIOUS
<1>3. PICK late \in 0..MaxDelay :
        Asked(late, IF Extractable(listed)
                    THEN [job EXCEPT !.pc = "candidates", !.left = listed, !.found = {},
                                     !.started = SentAt + late]
                    ELSE Fails)
  BY <1>2, Zenon DEF SearchAll
<1>4. CASE ~ Extractable(listed)
  <2>1. 1 \in DOMAIN job.sheet
    BY <1>1 DEF JobShape
  <2>2. ~ Findable(job.sheet[1])
    BY <1>2, <1>4 DEF Findable
  <2>3. Reason(SentAt + late)
    BY <2>1, <2>2, Zenon DEF Reason
  <2>4. Asked(late, Fails)
    BY <1>3, <1>4
  <2> QED BY <2>3, <2>4, FailsKeep
<1>5. CASE Extractable(listed)
  <2>1. PICK n : n = [job EXCEPT !.pc = "candidates", !.left = listed, !.found = {},
                                 !.started = SentAt + late]
    OBVIOUS
  <2>2. n = [kind |-> job.kind, pc |-> "candidates", sheet |-> job.sheet, from |-> job.from,
              started |-> SentAt + late, last |-> job.last, left |-> listed,
              found |-> {}, profiles |-> job.profiles, asked |-> job.asked, closest |-> job.closest,
              until |-> job.until, denied |-> job.denied, edits |-> job.edits]
    BY <1>1, <2>1 DEF JobShape
  <2>3. IsJob(n) /\ Carried(n) /\ n.pc = "candidates" /\ n.started = SentAt + late
        /\ n.profiles = job.profiles /\ n.left = listed /\ n.found = {}
    BY <2>2 DEF IsJob, Carried
  <2>4. Asked(late, n)
    BY <1>3, <1>5, <2>1
  <2>5. n.started \in 0..(SentAt + late)
    BY <1>1, <2>3, SpacingKept, CaptureAssumption
  <2>6. /\ JobTimes' /\ World' /\ JobShape' /\ OfTheCard' /\ LostForReason'
        /\ job'.kind = job.kind /\ job'.sheet = job.sheet /\ job'.pc = "candidates" /\ Steady' = Steady
        /\ job'.found = {} /\ job'.left = listed /\ UNCHANGED site
    <3>1. job.pc \in Looking /\ n.pc = "candidates" /\ n.profiles \in Seq(Profile)
      BY <1>1, <2>3 DEF Looking, JobShape
    <3> QED BY <1>1, <2>3, <2>4, <2>5, <3>1, GoesOn
  <2>7. listed # {} /\ listed \subseteq Snum
    BY <1>2, <1>5 DEF Extractable, Listed
  <2>8. PICK e : e = job.sheet[1]
    OBVIOUS
  <2>9. job'.sheet[1] = e /\ Listed(e.group)' = listed
    BY <1>2, <2>6, <2>8, SiteStays
  <2>10. Reading'
    BY <1>1, <2>6, <2>7, <2>9 DEF Reading
  <2>11. Searching'
    BY <1>1, <2>6 DEF Searching
  <2> QED BY <2>6, <2>10, <2>11 DEF CaptureInv
<1> QED BY <1>3, <1>4, <1>5

(* The profile of one of them: it is the rider's, or somebody else's.      *)
LEMMA CandidateKeeps == ASSUME CaptureInv, NEW s \in Snum, Candidate(s) PROVE CaptureInv'
<1>1. JobShape /\ JobTimes /\ World /\ job.kind = "v1" /\ job.pc = "candidates" /\ LooksUp /\ s \in job.left
  BY DEF CaptureInv, Candidate, JobShape, LooksUp
<1>2. PICK e : e = job.sheet[1]
  OBVIOUS
<1>3. /\ job.left \subseteq Snum /\ job.found \subseteq Snum
      /\ Steady => /\ job.left \subseteq Listed(e.group)
                   /\ \A t \in Listed(e.group) \ job.left : Parsed(t)
                   /\ job.found = {t \in Listed(e.group) \ job.left : Verified(t, e)}
  BY <1>1, <1>2 DEF CaptureInv, Reading
<1>4. 1 \in DOMAIN job.sheet /\ Len(job.sheet) = 1
  BY <1>1 DEF JobShape
<1>5. PICK match : match = job.found \cup {t \in {s} : Verified(t, e)}
  OBVIOUS
<1>6. match \subseteq Snum /\ IsFiniteSet(match)
  BY <1>3, <1>5, FS_Subset, CaptureAssumption
<1>7. PICK next : next = [job EXCEPT !.left = job.left \ {s}, !.found = match]
  OBVIOUS
<1> DEFINE one == CHOOSE t \in match : TRUE
<1> HIDE DEF one
<1>8. PICK last : last = IF Cardinality(match) # 1 THEN Fails
                         ELSE [next EXCEPT !.pc = "passed", !.found = <<one>>]
  OBVIOUS
<1>9. PICK late \in 0..MaxDelay :
         IF ~ Parsed(s) THEN Asked(late, Fails)
         ELSE AskedInTime(late, IF next.left = {} THEN last ELSE next)
  BY <1>2, <1>5, <1>7, <1>8, Zenon DEF Candidate, one
<1>10. next = [kind |-> job.kind, pc |-> job.pc, sheet |-> job.sheet, from |-> job.from,
              started |-> job.started, last |-> job.last, left |-> job.left \ {s},
              found |-> match, profiles |-> job.profiles, asked |-> job.asked, closest |-> job.closest,
              until |-> job.until, denied |-> job.denied, edits |-> job.edits]
  BY <1>1, <1>7 DEF JobShape
<1>11. Steady /\ Parsed(s) => /\ \A t \in Listed(e.group) \ (job.left \ {s}) : Parsed(t)
                             /\ match = {t \in Listed(e.group) \ (job.left \ {s}) : Verified(t, e)}
                             /\ job.left \ {s} \subseteq Listed(e.group)
  BY <1>1, <1>3, <1>5
<1>12. Steady /\ Parsed(s) /\ job.left \ {s} = {} => Named(Listed(e.group), e) = match
  <2> SUFFICES ASSUME Steady, Parsed(s), job.left \ {s} = {} PROVE Named(Listed(e.group), e) = match
    OBVIOUS
  <2>1. match = {t \in Listed(e.group) : Verified(t, e)} /\ \A t \in Listed(e.group) : Parsed(t)
    BY <1>11
  <2>2. \A t \in Listed(e.group) : Verified(t, e) <=> site[t].name = e.name
    BY <2>1 DEF Verified, Key, Listed
  <2> QED BY <2>1, <2>2 DEF Named
<1>13. CASE ~ Parsed(s)
  <2>1. Steady => Reason(SentAt + late)
    <3>1. Steady => \E t \in Listed(job.sheet[1].group) : ~ Parsed(t)
      BY <1>1, <1>2, <1>3, <1>13
    <3> QED BY <1>1, <3>1, Zenon DEF Reason
  <2>2. Asked(late, Fails)
    BY <1>9, <1>13
  <2> QED BY <2>1, <2>2, FailsKeep
<1>14. CASE Parsed(s) /\ next.left = {} /\ Cardinality(match) # 1
  <2>1. next.left = job.left \ {s}
    BY <1>10
  <2>2. ASSUME Steady, Findable(e) PROVE FALSE
    <3>1. PICK t : Named(Listed(e.group), e) = {t}
      BY <2>2 DEF Findable
    <3>2. match = {t}
      BY <1>12, <1>14, <2>1, <2>2, <3>1
    <3> QED BY <1>14, <3>2, FS_Singleton
  <2>3. Steady => Reason(SentAt + late)
    BY <1>2, <1>4, <2>2, Zenon DEF Reason
  <2>4. AskedInTime(late, Fails)
    BY <1>8, <1>9, <1>14
  <2>5. Asked(late, Fails)
    BY <2>4, Zenon DEF AskedInTime
  <2> QED BY <2>3, <2>5, FailsKeep
<1>15. CASE Parsed(s) /\ (next.left = {} => Cardinality(match) = 1)
  <2>1. PICK here : here = IF next.left = {} THEN "passed" ELSE "candidates"
    OBVIOUS
  <2>2. PICK found : found = IF next.left = {} THEN <<one>> ELSE match
    OBVIOUS
  <2>3. PICK n : n = IF next.left = {} THEN last ELSE next
    OBVIOUS
  <2>4. n = [kind |-> job.kind, pc |-> here, sheet |-> job.sheet, from |-> job.from,
              started |-> job.started, last |-> job.last, left |-> job.left \ {s},
              found |-> found, profiles |-> job.profiles, asked |-> job.asked, closest |-> job.closest,
              until |-> job.until, denied |-> job.denied, edits |-> job.edits]
    <3>1. CASE next.left = {}
      <4>1. last = [next EXCEPT !.pc = "passed", !.found = <<one>>]
        BY <1>8, <1>15, <3>1, Zenon
      <4>2. found = <<one>> /\ here = "passed" /\ n = last
        BY <2>1, <2>2, <2>3, <3>1, Zenon
      <4>3. n = [next EXCEPT !.pc = here, !.found = found]
        BY <4>1, <4>2, Zenon
      <4> QED BY <1>10, <4>3
    <3>2. CASE next.left # {}
      BY <1>1, <1>10, <2>1, <2>2, <2>3, <3>2
    <3> QED BY <3>1, <3>2
  <2>5. IsJob(n) /\ Carried(n) /\ n.pc = here /\ n.started = job.started /\ n.profiles = job.profiles
        /\ n.left = job.left \ {s} /\ n.found = found
    BY <2>4 DEF IsJob, Carried
  <2>6. AskedInTime(late, n)
    BY <1>9, <1>15, <2>3
  <2>7. SUFFICES ASSUME Asked(late, n), ~ TooLate(SentAt + late) PROVE CaptureInv'
    BY <2>5, <2>6, InTimeOrFailed
  <2>8. n.started \in 0..(SentAt + late)
    BY <1>1, <2>5, SpacingKept, CaptureAssumption DEF JobTimes, World
  <2>9. /\ JobTimes' /\ World' /\ JobShape' /\ OfTheCard' /\ LostForReason'
        /\ job'.kind = job.kind /\ job'.sheet = job.sheet /\ job'.pc = here /\ Steady' = Steady
        /\ job'.found = found /\ job'.left = job.left \ {s} /\ UNCHANGED site
    <3>1. job.pc \in Looking /\ n.pc \in {"candidates", "passed"} /\ n.profiles \in Seq(Profile)
      BY <1>1, <2>1, <2>5 DEF Looking, JobShape
    <3> QED BY <1>1, <2>5, <2>7, <2>8, <3>1, GoesOn
  <2>10. Searching'
    BY <1>1, <2>9 DEF Searching
  <2>11. next.left = job.left \ {s}
    BY <1>10
  <2>12. job'.sheet[1] = e /\ Listed(e.group)' = Listed(e.group) /\ Named(Listed(e.group), e)' = Named(Listed(e.group), e)
         /\ (\A t : Parsed(t)' = Parsed(t)) /\ \A t : Verified(t, e)' = Verified(t, e)
    BY <1>2, <2>9, SiteStays
  <2>13. CASE next.left = {}
    <3>1. PICK t : match = {t}
      BY <1>6, <1>15, <2>13, FS_Singleton
    <3>2. found = <<t>>
      <4>1. one \in match
        BY <3>1, Zenon DEF one
      <4> QED BY <2>2, <2>13, <3>1, <4>1
    <3>3. Steady => Named(Listed(e.group), e) = {t}
      BY <1>12, <1>15, <2>11, <2>13, <3>1
    <3>4. here = "passed" /\ found[1] = t
      BY <2>1, <2>13, <3>2
    <3>5. Reading'
      BY <2>9, <2>12, <3>3, <3>4 DEF Reading
    <3> QED BY <2>9, <2>10, <3>5 DEF CaptureInv
  <2>14. CASE next.left # {}
    <3>1. here = "candidates" /\ found = match /\ job.left \ {s} # {}
      BY <2>1, <2>2, <2>11, <2>14
    <3>2. Reading'
      BY <1>3, <1>6, <1>11, <1>15, <2>9, <2>12, <3>1 DEF Reading
    <3> QED BY <2>9, <2>10, <3>2 DEF CaptureInv
  <2> QED BY <2>13, <2>14
<1> QED BY <1>13, <1>14, <1>15

(* The world moves: nothing was promised of a site that has changed.       *)
LEMMA WorldMoves == ASSUME CaptureInv, \/ \E s \in Snum : Edit(s)
                                       \/ Rest \/ JobDies \/ UNCHANGED captureVars
                    PROVE  CaptureInv'
<1>1. JobShape /\ JobTimes /\ World /\ OfTheCard /\ Searching /\ Reading /\ LostForReason
      /\ job.edits \in Nat /\ job.edits <= edits /\ edits \in Nat /\ time \in Nat
  BY CaptureAssumption DEF CaptureInv, JobTimes, World
<1>2. CASE \E s \in Snum : Edit(s)
  <2>1. PICK s \in Snum, p \in Profile \cup {Absent} : site' = [site EXCEPT ![s] = p]
    BY <1>2 DEF Edit
  <2>2. edits < MaxEdits /\ edits' = edits + 1 /\ UNCHANGED <<time, card, job, jobs>>
    BY <1>2 DEF Edit
  <2>3. World'
    <3>1. site' \in [Snum -> Profile \cup {Absent}]
      BY <1>1, <2>1 DEF World
    <3>2. edits' \in 0..MaxEdits
      BY <1>1, <2>2, CaptureAssumption
    <3> QED BY <1>1, <2>2, <3>1, <3>2 DEF World
  <2>4. ~ Steady' /\ UNCHANGED <<job, card, time>>
    BY <1>1, <2>2 DEF Steady
  <2>5. JobTimes'
    BY <1>1, <2>2 DEF JobTimes, Pause
  <2>6. JobShape' /\ OfTheCard'
    BY <1>1, <2>4 DEF JobShape, LooksUp, OfTheCard, ValidSheet, Key
  <2>7. ASSUME NEW left, FoundBut(left) PROVE FoundBut(left)'
    <3>1. job'.found \in [DOMAIN job'.sheet -> Snum \cup {Absent}]
      BY <2>4, <2>7 DEF FoundBut
    <3>2. \A c \in DOMAIN job'.sheet :
            IF job'.sheet[c].group \in left THEN job'.found[c] = Absent
            ELSE /\ job'.found[c] \in Snum
                 /\ \A d \in DOMAIN job'.sheet : job'.found[c] = job'.found[d] => c = d
      BY <2>4, <2>7 DEF FoundBut
    <3> QED BY <2>4, <3>1, <3>2 DEF FoundBut
  <2>8. Profiled' = Profiled /\ Groups' = Groups
    BY <2>4 DEF Profiled, Key, Groups, GroupsOf
  <2>9. Searching'
    <3>1. FoundBut(job.left) => FoundBut(job.left)'
      <4>1. PICK left : left = job.left
        OBVIOUS
      <4>2. FoundBut(job.left) => FoundBut(left)'
        BY <2>7, <4>1
      <4> QED BY <2>4, <4>1, <4>2
    <3>2. FoundBut({}) => FoundBut({})'
      BY <2>7
    <3> QED BY <1>1, <2>4, <2>8, <3>1, <3>2 DEF Searching
  <2>10. Reading'
    BY <1>1, <2>4, <2>8 DEF Reading
  <2>11. LostForReason'
    BY <2>4 DEF LostForReason, Steady
  <2> QED BY <2>3, <2>5, <2>6, <2>9, <2>10, <2>11 DEF CaptureInv
<1>3. CASE UNCHANGED <<site, edits, card, job, jobs>> /\ time' \in Nat /\ time' >= time
  <2>1. JobTimes' /\ World'
    BY <1>1, <1>3 DEF JobTimes, World, Pause
  <2>2. JobShape' /\ OfTheCard'
    BY <1>1, <1>3 DEF JobShape, LooksUp, OfTheCard, ValidSheet, Key
  <2>3. Steady' = Steady /\ Profiled' = Profiled /\ Groups' = Groups
    BY <1>3 DEF Steady, Profiled, Key, Groups, GroupsOf
  <2>4. ASSUME NEW left, FoundBut(left) PROVE FoundBut(left)'
    BY <1>3, <2>3, <2>4, FoundStays
  <2>5. Searching'
    <3>1. FoundBut(job.left) => FoundBut(job.left)'
      <4>1. PICK left : left = job.left
        OBVIOUS
      <4>2. FoundBut(job.left) => FoundBut(left)'
        BY <2>4, <4>1
      <4> QED BY <1>3, <4>1, <4>2
    <3>2. FoundBut({}) => FoundBut({})'
      BY <2>4
    <3> QED BY <1>1, <1>3, <2>3, <3>1, <3>2 DEF Searching
  <2>6. Reading'
    BY <1>1, <1>3, <2>3, SiteStays DEF Reading
  <2>7. LostForReason'
    <3>1. SUFFICES ASSUME LooksUp, job.pc = "failed", ~ job.denied, Steady PROVE Reason(time)'
      BY <1>3, <2>3 DEF LostForReason, Reason, Steady, LooksUp
    <3>2. Reason(time)
      BY <1>1, <3>1, LostIsReason
    <3>3. PICK t : t = time'
      OBVIOUS
    <3>4. TooLate(time) => TooLate(t)
      <4>1. MaxBatch \in Nat /\ MaxWindow \in Nat /\ MaxLocate \in Nat
        BY CaptureAssumption
      <4>2. job.started \in Nat /\ job.from \in Nat
        BY <1>1 DEF JobTimes
      <4> QED BY <1>1, <1>3, <3>3, <4>1, <4>2 DEF TooLate, Overdue, OverBudget
    <3>5. Reason(t)
      BY <3>2, <3>4, Zenon DEF Reason
    <3>6. Reason(t)'
      BY <1>3, <3>5, ReasonStays
    <3>7. TooLate(t)' => TooLate(time)'
      BY <3>3 DEF TooLate, Overdue, OverBudget
    <3> QED BY <3>6, <3>7, Zenon DEF Reason
  <2> QED BY <2>1, <2>2, <2>5, <2>6, <2>7 DEF CaptureInv
<1>4. CASE JobDies
  <2>1. job' = [job EXCEPT !.pc = "failed", !.denied = TRUE] /\ UNCHANGED <<site, edits, time, card, jobs>>
    BY <1>4 DEF JobDies
  <2>2. job' = [kind |-> job.kind, pc |-> "failed", sheet |-> job.sheet, from |-> job.from,
              started |-> job.started, last |-> job.last, left |-> job.left, found |-> job.found,
              profiles |-> job.profiles, asked |-> job.asked, closest |-> job.closest,
              until |-> job.until, denied |-> TRUE, edits |-> job.edits]
    BY <1>1, <2>1 DEF JobShape
  <2>3. /\ IsJob(job') /\ job'.kind = job.kind /\ job'.pc = "failed" /\ job'.sheet = job.sheet
        /\ job'.from = job.from /\ job'.started = job.started /\ job'.last = job.last
        /\ job'.profiles = job.profiles /\ job'.asked = job.asked /\ job'.closest = job.closest
        /\ job'.until = job.until /\ job'.denied = TRUE /\ job'.edits = job.edits
    BY <2>2 DEF IsJob
  <2>4. JobTimes' /\ World'
    BY <1>1, <2>1, <2>3 DEF JobTimes, World, Pause
  <2>5. job'.asked \in Nat
    BY <1>1, <2>3 DEF JobShape
  <2> QED BY <2>1, <2>3, <2>4, <2>5, StoppedKeeps
<1>5. Rest => UNCHANGED <<site, edits, card, job, jobs>> /\ time' \in Nat /\ time' >= time
  BY <1>1 DEF Rest
<1>6. UNCHANGED captureVars => UNCHANGED <<site, edits, card, job, jobs>> /\ time' \in Nat /\ time' >= time
  BY <1>1 DEF captureVars
<1> QED BY <1>2, <1>3, <1>4, <1>5, <1>6

LEMMA CaptureInitInv == CaptureInit => CaptureInv
<1> SUFFICES ASSUME CaptureInit PROVE CaptureInv
  OBVIOUS
<1>1. job = NoJob /\ time = 0 /\ edits = 0 /\ jobs = 0 /\ card = Absent
      /\ site \in [Snum -> Profile \cup {Absent}]
  BY DEF CaptureInit
<1>2. JobShape
  BY <1>1 DEF JobShape, NoJob, LooksUp, Looking
<1>3. JobTimes
  BY <1>1 DEF JobTimes, NoJob
<1>4. World
  BY <1>1, CaptureAssumption DEF World
<1>5. OfTheCard /\ Searching /\ Reading /\ LostForReason
  BY <1>1 DEF OfTheCard, Searching, Reading, LostForReason, NoJob, LooksUp
<1> QED BY <1>2, <1>3, <1>4, <1>5 DEF CaptureInv

LEMMA CaptureNextKeeps == CaptureInv /\ [CaptureNext]_captureVars => CaptureInv'
<1> SUFFICES ASSUME CaptureInv, [CaptureNext]_captureVars PROVE CaptureInv'
  OBVIOUS
<1>1. CASE BeginCard \/ BeginBatch \/ \E k \in {"v1", "v2"}, e \in Rows : BeginLocator(k, e)
  BY <1>1, BeginsKeep
<1>2. CASE Discover \/ FetchCard
  BY <1>2, CardKeeps
<1>3. CASE Landing \/ \E g \in Group : NoOption(g) \/ Search(g)
  BY <1>3, LandingKeeps, NoOptionKeeps, SearchKeeps
<1>4. CASE ReadProfile \/ Fuse
  BY <1>4, ReadKeeps, FuseKeeps
<1>5. CASE SearchAll \/ \E s \in Snum : Candidate(s)
  BY <1>5, SearchAllKeeps, CandidateKeeps
<1>6. CASE \E late \in 0..MaxDelay : Denied(late)
  BY <1>6, DeniedKeeps
<1>7. CASE (\E s \in Snum : Edit(s)) \/ Rest \/ JobDies \/ UNCHANGED captureVars
  BY <1>7, WorldMoves
<1> QED BY <1>1, <1>2, <1>3, <1>4, <1>5, <1>6, <1>7 DEF CaptureNext

LEMMA CaptureInvImplies == CaptureInv => CaptureInvariant
<1> SUFFICES ASSUME CaptureInv PROVE CaptureInvariant
  OBVIOUS
<1>1. JobShape /\ JobTimes /\ World /\ OfTheCard /\ Searching /\ Reading /\ LostForReason
  BY DEF CaptureInv
<1>2. CaptureTypeOK
  BY <1>1 DEF CaptureTypeOK, World, JobTimes
<1>3. OneRiderEach
  <2> SUFFICES ASSUME Succeeded PROVE OneRiderEach
    BY DEF OneRiderEach
  <2>1. CASE job.kind = "v1"
    <3>1. Len(job.sheet) = 1 /\ DOMAIN job.sheet = {1} /\ job.pc = "passed"
      BY <1>1, <2>1 DEF JobShape, Succeeded, LooksUp
    <3>2. Steady => Named(Listed(job.sheet[1].group), job.sheet[1]) = {job.found[1]}
      BY <1>1, <2>1, <3>1 DEF Reading
    <3> QED BY <3>1, <3>2 DEF OneRiderEach, Steady
  <2>2. CASE job.kind \in {"batch", "v2"}
    <3>1. FoundBut({})
      BY <1>1, <2>2 DEF Searching, Succeeded
    <3> QED BY <3>1 DEF OneRiderEach, FoundBut, Steady
  <2> QED BY <2>1, <2>2 DEF Succeeded, LooksUp
<1>4. CapturedInWindow
  <2> SUFFICES ASSUME Succeeded, job.kind = "batch", NEW c \in Cars
      PROVE  LET p == job.profiles[c]
             IN  /\ p.number = job.found[c] /\ Key(p) = Key(Kept(card.entrants)[c])
                 /\ job.until <= card.from + MaxWindow /\ job.until <= job.started + MaxBatch
                 /\ job.pc = "fused" => /\ Key(p) = PrintedKey(card.entrants[c])
                                        /\ p.form = card.entrants[c].form
    BY DEF CapturedInWindow
  <2>1. job.pc \in Looking /\ job.sheet = Kept(card.entrants) /\ card.from = job.from
        /\ card.entrants \in [Cars -> Entrant]
        /\ job.until <= job.from + MaxWindow /\ job.until <= job.started + MaxBatch
    BY <1>1 DEF OfTheCard, Succeeded, Looking
  <2>2. Profiled /\ Len(job.profiles) = Len(job.sheet) /\ Len(job.sheet) = Riders
    BY <1>1 DEF Searching, Succeeded, JobShape
  <2>3. c \in DOMAIN job.profiles
    BY <1>1, <2>2 DEF JobShape, Cars
  <2>4. job.profiles[c].number = job.found[c] /\ Key(job.profiles[c]) = Key(job.sheet[c])
    BY <2>2, <2>3 DEF Profiled
  <2>5. job.pc = "fused" => /\ job.profiles[c].form = job.sheet[c].form
                            /\ Key(job.sheet[c]) = PrintedKey(card.entrants[c])
    BY <1>1 DEF OfTheCard
  <2>6. job.sheet[c].form = card.entrants[c].form
    BY <2>1, KeptAreEntrants
  <2> QED BY <2>1, <2>4, <2>5, <2>6
<1>5. AskedSpaced
  <2>1. job.closest # Absent => job.closest >= Pause
    BY <1>1 DEF JobTimes
  <2>2. Succeeded /\ job.kind # "v1" =>
          job.asked = 1 + Cardinality(GroupsOf(job.sheet)) + Len(job.sheet)
    BY <1>1 DEF Searching, Succeeded, LooksUp, Groups
  <2> QED BY <2>1, <2>2 DEF AskedSpaced
<1> QED BY <1>1, <1>2, <1>3, <1>4, <1>5 DEF CaptureInvariant

(* CaptureInvariant: whatever the sites answer and however keirin.jp       *)
(* changes, for any riders, groups, numbers, spacings and limits.          *)
THEOREM CaptureInvariantHolds == CaptureSpec => []CaptureInvariant
BY CaptureInitInv, CaptureNextKeeps, CaptureInvImplies, PTL DEF CaptureSpec
-----------------------------------------------------------------------------
(* Stage 0.  Counts of tickets first: of the sets and pairs of a finite    *)
(* set.                                                                    *)

(* Of the sets of k + 1 elements, those that lack x and those that have it. *)
LEMMA OneMore ==
    ASSUME NEW S, IsFiniteSet(S), NEW x \in S, NEW k \in Nat
    PROVE  /\ IsFiniteSet(kSubset(k + 1, S)) /\ IsFiniteSet(kSubset(k, S \ {x}))
           /\ IsFiniteSet(kSubset(k + 1, S \ {x}))
           /\ Cardinality(kSubset(k + 1, S))
                = Cardinality(kSubset(k + 1, S \ {x})) + Cardinality(kSubset(k, S \ {x}))
<1> DEFINE V == S \ {x}
           A == kSubset(k + 1, V)
           B == kSubset(k, V)
           C == {T \in kSubset(k + 1, S) : x \in T}
           f == [T \in B |-> T \cup {x}]
<1>1. IsFiniteSet(V) /\ V \subseteq S
  BY FS_RemoveElement
<1>2. IsFiniteSet(SUBSET S) /\ IsFiniteSet(SUBSET V)
  BY <1>1, FS_SUBSET
<1>3. IsFiniteSet(kSubset(k + 1, S)) /\ IsFiniteSet(A) /\ IsFiniteSet(B)
  <2>1. kSubset(k + 1, S) \in SUBSET SUBSET S /\ A \in SUBSET SUBSET V /\ B \in SUBSET SUBSET V
    BY DEF kSubset
  <2> QED BY <1>2, <2>1, FS_Subset
<1>4. \A T \in SUBSET S : IsFiniteSet(T) /\ Cardinality(T) \in Nat
  BY FS_Subset, FS_CardinalityType
<1>5. \A T \in SUBSET V : Cardinality(T \cup {x}) = Cardinality(T) + 1
  BY <1>1, <1>4, FS_AddElement
<1>6. \A T \in SUBSET S : x \in T => Cardinality(T \ {x}) = Cardinality(T) - 1
  BY <1>4, FS_RemoveElement
<1>7. f \in [B -> C]
  BY <1>1, <1>5 DEF kSubset
<1>8. \A T, U \in B : f[T] = f[U] => T = U
  BY DEF kSubset
<1>9. \A U \in C : \E T \in B : f[T] = U
  <2> SUFFICES ASSUME NEW U \in C PROVE \E T \in B : f[T] = U
    OBVIOUS
  <2>1. U \in SUBSET S /\ x \in U /\ Cardinality(U) = k + 1
    BY DEF kSubset
  <2>2. U \ {x} \in SUBSET V /\ Cardinality(U \ {x}) = k
    BY <1>6, <2>1
  <2>3. U \ {x} \in B
    BY <2>2 DEF kSubset
  <2>4. f[U \ {x}] = U
    BY <2>1, <2>3
  <2> QED BY <2>3, <2>4
<1>10. Cardinality(C) = Cardinality(B) /\ IsFiniteSet(C)
  <2>1. f \in Bijection(B, C)
    BY <1>7, <1>8, <1>9 DEF Bijection, Injection, Surjection, IsInjective
  <2> QED BY <2>1, <1>3, FS_Bijection DEF ExistsBijection
<1>11. kSubset(k + 1, S) = A \cup C /\ A \cap C = {}
  BY <1>1 DEF kSubset
<1>12. Cardinality(A \cup C) = Cardinality(A) + Cardinality(C)
  <2>1. Cardinality(A \cap C) = 0 /\ Cardinality(A) \in Nat /\ Cardinality(C) \in Nat
    BY <1>3, <1>10, <1>11, FS_EmptySet, FS_CardinalityType
  <2>2. Cardinality(A \cup C) = Cardinality(A) + Cardinality(C) - Cardinality(A \cap C)
    BY <1>3, <1>10, FS_Union
  <2> HIDE DEF A, C
  <2> QED BY <2>1, <2>2
<1> QED BY <1>3, <1>10, <1>11, <1>12

(* How many sets of one, two and three elements a finite set has: by       *)
(* induction, as a smallest set of which this is wrong would have one more *)
(* element than one of which it is right.                                  *)
Counted3(S) ==
    LET n == Cardinality(S)
    IN  /\ Cardinality(kSubset(1, S)) = n
        /\ 2 * Cardinality(kSubset(2, S)) = n * (n - 1)
        /\ 6 * Cardinality(kSubset(3, S)) = n * (n - 1) * (n - 2)

LEMMA SubsetCounts ==
    ASSUME NEW S, IsFiniteSet(S)
    PROVE  Counted3(S)
<1> DEFINE Wrong == {U \in SUBSET S : ~ Counted3(U)}
<1> SUFFICES ASSUME ~ Counted3(S) PROVE FALSE
  OBVIOUS
<1>1. Wrong # {} /\ Wrong \subseteq FiniteSubsetsOf(S)
  BY FS_Subset DEF FiniteSubsetsOf
<1> HIDE DEF Wrong
<1>2. PICK U \in Wrong : \A T \in Wrong : <<T, U>> \notin StrictSubsetOrdering(S)
  BY <1>1, FS_StrictSubsetOrderingWellFounded, WFMin
<1>3. U \in SUBSET S /\ IsFiniteSet(U) /\ ~ Counted3(U)
  BY <1>1 DEF Wrong, FiniteSubsetsOf
<1>4. \A T \in SUBSET U : T # U => Counted3(T)
  BY <1>2, <1>3 DEF Wrong, StrictSubsetOrdering
<1>5. U # {}
  <2> SUFFICES ASSUME U = {} PROVE FALSE
    OBVIOUS
  <2>1. \A k \in 1..3 : kSubset(k, U) = {}
    BY FS_EmptySet DEF kSubset
  <2>2. Cardinality(U) = 0 /\ \A k \in 1..3 : Cardinality(kSubset(k, U)) = 0
    BY <2>1, FS_EmptySet
  <2> QED BY <2>2, <1>3 DEF Counted3
<1>6. PICK x \in U : TRUE
  BY <1>5
<1>7. PICK n \in Nat : n = Cardinality(U \ {x}) /\ Cardinality(U) = n + 1
  <2>1. IsFiniteSet(U \ {x}) /\ Cardinality(U \ {x}) = Cardinality(U) - 1
    BY <1>3, FS_RemoveElement
  <2>2. Cardinality(U) \in Nat /\ Cardinality(U \ {x}) \in Nat
    BY <1>3, <2>1, FS_CardinalityType
  <2> QED BY <2>1, <2>2
<1>8. Counted3(U \ {x})
  BY <1>4
<1>9. Cardinality(kSubset(0, U \ {x})) = 1
  <2>1. \A T \in SUBSET (U \ {x}) : Cardinality(T) = 0 <=> T = {}
    BY <1>3, FS_Subset, FS_EmptySet
  <2>2. kSubset(0, U \ {x}) = {{}}
    BY <2>1 DEF kSubset
  <2> QED BY <2>2, FS_Singleton
<1>10. PICK a, b, c \in Nat :
          a = Cardinality(kSubset(1, U \ {x})) /\ b = Cardinality(kSubset(2, U \ {x}))
          /\ c = Cardinality(kSubset(3, U \ {x}))
  <2>1. IsFiniteSet(kSubset(0 + 1, U \ {x})) /\ IsFiniteSet(kSubset(1 + 1, U \ {x}))
        /\ IsFiniteSet(kSubset(2 + 1, U \ {x}))
    BY <1>3, OneMore
  <2> QED BY <2>1, FS_CardinalityType
<1>11. a = n /\ 2 * b = n * (n - 1) /\ 6 * c = n * (n - 1) * (n - 2)
  BY <1>7, <1>8, <1>10 DEF Counted3
<1>12. /\ Cardinality(kSubset(0 + 1, U)) = a + 1
       /\ Cardinality(kSubset(1 + 1, U)) = b + a
       /\ Cardinality(kSubset(2 + 1, U)) = c + b
  <2>1. /\ Cardinality(kSubset(0 + 1, U)) = Cardinality(kSubset(0 + 1, U \ {x})) + Cardinality(kSubset(0, U \ {x}))
        /\ Cardinality(kSubset(1 + 1, U)) = Cardinality(kSubset(1 + 1, U \ {x})) + Cardinality(kSubset(1, U \ {x}))
        /\ Cardinality(kSubset(2 + 1, U)) = Cardinality(kSubset(2 + 1, U \ {x})) + Cardinality(kSubset(2, U \ {x}))
    BY <1>3, OneMore
  <2> QED BY <2>1, <1>9, <1>10
<1>13. /\ a + 1 = n + 1 /\ 2 * (b + a) = (n + 1) * (n + 1 - 1)
       /\ 6 * (c + b) = (n + 1) * (n + 1 - 1) * (n + 1 - 2)
  BY <1>11
<1> QED BY <1>3, <1>7, <1>12, <1>13 DEF Counted3

(* A page that the parser takes has as many keys as the cars it names make *)
(* tickets, and all of them of these cars.                                 *)
LEMMA OrderedCount ==
    ASSUME NEW S, IsFiniteSet(S)
    PROVE  /\ IsFiniteSet({t \in S \X S : t[1] # t[2]})
           /\ Cardinality({t \in S \X S : t[1] # t[2]}) = Cardinality(S) * (Cardinality(S) - 1)
<1> DEFINE All == S \X S
           Same == {t \in All : t[1] = t[2]}
           Other == {t \in All : t[1] # t[2]}
           f == [s \in S |-> <<s, s>>]
<1>1. IsFiniteSet(All) /\ Cardinality(All) = Cardinality(S) * Cardinality(S)
  BY FS_Product
<1>2. f \in Bijection(S, Same)
  <2>1. f \in [S -> Same]
    OBVIOUS
  <2>2. \A s, t \in S : f[s] = f[t] => s = t
    OBVIOUS
  <2>3. \A t \in Same : \E s \in S : f[s] = t
    OBVIOUS
  <2> QED BY <2>1, <2>2, <2>3 DEF Bijection, Injection, Surjection, IsInjective
<1>3. IsFiniteSet(Same) /\ Cardinality(Same) = Cardinality(S)
  BY <1>2, FS_Bijection DEF ExistsBijection
<1>4. Other = All \ Same /\ All \cap Same = Same
  OBVIOUS
<1>5. IsFiniteSet(Other) /\ Cardinality(Other) = Cardinality(All) - Cardinality(All \cap Same)
  <2>1. IsFiniteSet(All \ Same) /\ Cardinality(All \ Same) = Cardinality(All) - Cardinality(All \cap Same)
    BY <1>1, FS_Difference
  <2> HIDE DEF All, Same, Other
  <2> QED BY <1>4, <2>1
<1>6. PICK n \in Nat : n = Cardinality(S)
  BY FS_CardinalityType
<1>7. n * n - n = n * (n - 1)
  OBVIOUS
<1> HIDE DEF All, Same, Other
<1>8. Cardinality(Other) = n * (n - 1)
  BY <1>1, <1>3, <1>4, <1>5, <1>6, <1>7
<1> QED BY <1>5, <1>6, <1>8 DEF Other, All

LEMMA TicketCount ==
    ASSUME NEW m \in CarMarkets, NEW S, IsFiniteSet(S), Cardinality(S) >= 3
    PROVE  /\ IsFiniteSet(Tickets(m, S))
           /\ Cardinality(Tickets(m, S)) = expected_count(m, Cardinality(S))
<1>1. PICK n \in Nat : n = Cardinality(S)
  BY FS_CardinalityType
<1>2. \A k \in Nat : IsFiniteSet(kSubset(k, S))
  <2>1. \A k \in Nat : kSubset(k, S) \in SUBSET SUBSET S
    BY DEF kSubset
  <2> QED BY <2>1, FS_SUBSET, FS_Subset
<1>3. PICK b, c \in Nat : b = Cardinality(kSubset(2, S)) /\ c = Cardinality(kSubset(3, S))
  BY <1>2, FS_CardinalityType
<1>4. 2 * b = n * (n - 1) /\ 6 * c = n * (n - 1) * (n - 2)
  BY <1>1, <1>3, SubsetCounts DEF Counted3
<1>5. CASE m = "2shatan"
  BY <1>5, OrderedCount DEF Tickets, expected_count
<1>6. CASE m = "2shahuku"
  <2>1. b = (n * (n - 1)) \div 2
    BY <1>4
  <2> QED BY <1>1, <1>2, <1>3, <1>6, <2>1 DEF Tickets, expected_count
<1>7. CASE m = "3renhuku"
  <2>1. PICK k \in Int : k = n * (n - 1) * (n - 2)
    BY <1>1
  <2>2. c = k \div 6
    BY <1>4, <2>1
  <2>3. c = (n * (n - 1) * (n - 2)) \div 6
    BY <2>1, <2>2
  <2> QED BY <1>1, <1>2, <1>3, <1>7, <2>3 DEF Tickets, expected_count
<1> QED BY <1>5, <1>6, <1>7 DEF CarMarkets

(* The keys of a page, of the cars they name: tickets of these cars, and   *)
(* those that name one car twice.                                          *)
Twice(m, sold, cars) == {t \in sold : \E c \in cars : CarsOf(m, t) = {c}}

LEMMA KeysOfCars ==
    ASSUME NEW m \in CarMarkets, NEW sold, sold \subseteq Keys(m, Car)
    PROVE  LET cars == ticket_car_set(m, sold)
           IN  /\ cars \subseteq Car
               /\ sold \ Twice(m, sold, cars) \subseteq Tickets(m, cars)
               /\ Twice(m, sold, cars) \cap Tickets(m, cars) = {}
<1> DEFINE cars == ticket_car_set(m, sold)
<1>1. \A t \in sold : CarsOf(m, t) \subseteq cars
  BY DEF ticket_car_set
<1>2. CASE m = "2shatan"
  <2>1. \A t \in sold : t \in Car \X Car /\ CarsOf(m, t) = {t[1], t[2]}
    BY <1>2 DEF Keys, CarsOf
  <2>2. cars \subseteq Car
    BY <2>1 DEF ticket_car_set
  <2>3. \A t \in sold : t \in cars \X cars /\ (t[1] = t[2] => CarsOf(m, t) = {t[1]})
    BY <1>1, <2>1
  <2>4. Tickets(m, cars) = {t \in cars \X cars : t[1] # t[2]}
    BY <1>2 DEF Tickets
  <2>5. \A t \in sold : t \notin Twice(m, sold, cars) => t \in Tickets(m, cars)
    BY <2>3, <2>4 DEF Twice
  <2>6. \A t \in Twice(m, sold, cars) : t \notin Tickets(m, cars)
    BY <2>1, <2>4 DEF Twice
  <2> QED BY <2>2, <2>5, <2>6
<1>3. CASE m = "2shahuku"
  <2>1. \A t \in sold : t \in SUBSET Car /\ Cardinality(t) \in {1, 2} /\ CarsOf(m, t) = t
    BY <1>3 DEF Keys, CarsOf, kSubset
  <2>2. cars \subseteq Car
    BY <2>1 DEF ticket_car_set
  <2>3. Tickets(m, cars) = {t \in SUBSET cars : Cardinality(t) = 2}
    BY <1>3 DEF Tickets, kSubset
  <2>4. \A t \in sold : t \notin Twice(m, sold, cars) => t \in Tickets(m, cars)
    <3> SUFFICES ASSUME NEW t \in sold, t \notin Twice(m, sold, cars), Cardinality(t) = 1 PROVE FALSE
      BY <1>1, <2>1, <2>3
    <3>1. t \in SUBSET cars /\ CarsOf(m, t) = t
      BY <1>1, <2>1
    <3>2. IsFiniteSet(t)
      BY <2>1, RecoveryAssumption, FS_Subset
    <3>3. PICK c : t = {c}
      BY <3>2, FS_Singleton
    <3> QED BY <3>1, <3>3 DEF Twice
  <2>5. \A t \in Twice(m, sold, cars) : t \notin Tickets(m, cars)
    <3> SUFFICES ASSUME NEW t \in Twice(m, sold, cars) PROVE Cardinality(t) = 1
      BY <2>3
    <3>1. PICK c : t = {c}
      BY <2>1 DEF Twice
    <3> QED BY <3>1, FS_Singleton
  <2> QED BY <2>2, <2>4, <2>5
<1>4. CASE m = "3renhuku"
  <2>1. \A t \in sold : t \in SUBSET Car /\ Cardinality(t) = 3 /\ CarsOf(m, t) = t
    BY <1>4 DEF Keys, CarsOf, kSubset
  <2>2. cars \subseteq Car
    BY <2>1 DEF ticket_car_set
  <2>3. Tickets(m, cars) = {t \in SUBSET cars : Cardinality(t) = 3}
    BY <1>4 DEF Tickets, kSubset
  <2>4. sold \subseteq Tickets(m, cars)
    BY <1>1, <2>1, <2>3
  <2>5. Twice(m, sold, cars) = {}
    <3> SUFFICES ASSUME NEW t \in sold, NEW c, CarsOf(m, t) = {c} PROVE FALSE
      BY DEF Twice
    <3>1. Cardinality({c}) = 1
      BY FS_Singleton
    <3> QED BY <2>1, <3>1
  <2> QED BY <2>2, <2>4, <2>5
<1> QED BY <1>2, <1>3, <1>4 DEF CarMarkets

LEMMA KeysAreFinite ==
    ASSUME NEW m \in CarMarkets, NEW sold, sold \subseteq Keys(m, Car)
    PROVE  IsFiniteSet(sold)
<1>1. IsFiniteSet(Car) /\ IsFiniteSet(Car \X Car) /\ IsFiniteSet(SUBSET Car)
  BY RecoveryAssumption, FS_Product, FS_SUBSET
<1>2. Keys(m, Car) \subseteq Car \X Car \/ Keys(m, Car) \subseteq SUBSET Car
  BY DEF Keys, kSubset, CarMarkets
<1> QED BY <1>1, <1>2, FS_Subset

(* What the gate to Stage 1 asks of one race.                              *)
Priced(p) ==
    \E active \in SUBSET Car :
       /\ Cardinality(active) >= 3
       /\ \A m \in DOMAIN p.sold \cap CarMarkets :
             LET sold == p.sold[m]
             IN  /\ sold \ Twice(m, sold, active) \subseteq Tickets(m, active)
                 /\ Cardinality(Tickets(m, active) \ sold) = Cardinality(Twice(m, sold, active))

(* Two finite sets of one size lack as many elements of each other.        *)
LEMMA AsManyLack ==
    ASSUME NEW S, NEW T, IsFiniteSet(S), IsFiniteSet(T), Cardinality(S) = Cardinality(T)
    PROVE  Cardinality(T \ S) = Cardinality(S \ T)
<1>1. /\ Cardinality(T \ S) = Cardinality(T) - Cardinality(T \cap S)
      /\ Cardinality(S \ T) = Cardinality(S) - Cardinality(S \cap T)
  BY FS_Difference
<1>2. T \cap S = S \cap T
  OBVIOUS
<1> QED BY <1>1, <1>2

LEMMA ParsedIsPriced ==
    ASSUME NEW p \in Page, parse_payload(p)
    PROVE  Priced(p)
<1> DEFINE car == DOMAIN p.sold \cap CarMarkets
           f == [m \in car |-> ticket_car_set(m, p.sold[m])]
           sets == {ticket_car_set(m, p.sold[m]) : m \in car}
<1>1. /\ Cardinality(sets) = 1
      /\ \A active \in sets :
            /\ Cardinality(active) >= 3
            /\ \A m \in car : Cardinality(p.sold[m]) = expected_count(m, Cardinality(active))
  BY Zenon DEF parse_payload
<1>2. IsFiniteSet(car)
  <2>1. IsFiniteSet({"2shatan"} \cup {"2shahuku"} \cup {"3renhuku"})
    BY FS_Singleton, FS_Union
  <2>2. car \subseteq {"2shatan"} \cup {"2shahuku"} \cup {"3renhuku"}
    BY DEF CarMarkets
  <2> QED BY <2>1, <2>2, FS_Subset
<1>3. IsFiniteSet(sets)
  <2>1. f \in Surjection(car, sets)
    BY DEF Surjection
  <2> QED BY <1>2, <2>1, FS_Surjection
<1>4. PICK active : sets = {active}
  BY <1>1, <1>3, FS_Singleton
<1>5. \A m \in car : ticket_car_set(m, p.sold[m]) = active
  BY <1>4
<1>6. \A m \in car : p.sold[m] \subseteq Keys(m, Car)
  BY RecoveryAssumption DEF IsPage, CarMarkets
<1>7. active \in SUBSET Car
  <2>1. PICK m \in car : TRUE
    BY <1>4
  <2> QED BY <1>5, <1>6, <2>1, KeysOfCars
<1>8. IsFiniteSet(active) /\ Cardinality(active) >= 3
  BY <1>1, <1>4, <1>7, RecoveryAssumption, FS_Subset
<1>9. ASSUME NEW m \in car
      PROVE  /\ p.sold[m] \ Twice(m, p.sold[m], active) \subseteq Tickets(m, active)
             /\ Cardinality(Tickets(m, active) \ p.sold[m]) = Cardinality(Twice(m, p.sold[m], active))
  <2>1. PICK sold : sold = p.sold[m]
    OBVIOUS
  <2>2. /\ sold \ Twice(m, sold, active) \subseteq Tickets(m, active)
        /\ Twice(m, sold, active) \cap Tickets(m, active) = {}
    BY <1>5, <1>6, <2>1, KeysOfCars
  <2>3. IsFiniteSet(Tickets(m, active)) /\ Cardinality(Tickets(m, active)) = Cardinality(sold)
    BY <1>1, <1>4, <1>8, <2>1, TicketCount
  <2>4. IsFiniteSet(sold)
    BY <1>6, <2>1, KeysAreFinite
  <2>5. sold \ Tickets(m, active) = Twice(m, sold, active)
    <3>1. Twice(m, sold, active) \subseteq sold
      BY DEF Twice
    <3> QED BY <2>2, <3>1
  <2>6. Cardinality(Tickets(m, active) \ sold) = Cardinality(sold \ Tickets(m, active))
    BY <2>3, <2>4, AsManyLack
  <2> QED BY <2>1, <2>2, <2>5, <2>6
<1> QED BY <1>7, <1>8, <1>9 DEF Priced

(* The races before the k-th, and those no page is held of.                *)
Done(k) == {RaceOrder[i] : i \in 1..(k - 1)}
Unheld == {r \in Races : \A h \in ses.held : h[1] # r}

Phases == {"idle", "bind", "clear", "gate", "preflight", "parse", "quality", "bundle", "receipt"}
RecSession == [pc: Phases, held: SUBSET (Races \X (Copy \cup {"bytes"})), next: 1..(Len(RaceOrder) + 1),
               rows: SUBSET Races, failed: SUBSET Races]
RecShape ==
    /\ RecoveryTypeOK /\ page \in [Races -> Page]
    /\ disk = [f \in Output |-> disk[f]] /\ ses \in RecSession

(* Past its clearing a session has left nothing, and parsed nothing yet.   *)
Sweeping == IF ver = "v1" THEN {"gate", "preflight"} ELSE {"bind", "gate", "preflight"}
Swept ==
    /\ ses.pc \in Sweeping => Left = {}
    /\ ses.pc \in {"idle", "bind", "clear", "gate", "preflight"} => ses.rows = {} /\ ses.next = 1

(* While it parses, and afterwards, there is no receipt, the catalog is    *)
(* what it has in memory, and the races passed so far are in it or failed. *)
Parsing ==
    ses.pc \in {"parse", "quality", "bundle", "receipt"} =>
        /\ disk.receipt = Missing /\ disk.price = ses.rows
        /\ \A r \in ses.rows : parse_payload(page[r])
        /\ ses.rows \cap ses.failed = {} /\ Unheld \subseteq ses.failed
        /\ ses.rows \subseteq Done(ses.next) /\ ses.failed \subseteq Unheld \cup Done(ses.next)
        /\ Done(ses.next) \subseteq ses.rows \cup ses.failed
Gathered ==
    /\ ses.pc \in {"quality", "bundle", "receipt"} =>
          disk.fail = ses.failed /\ ses.rows \cup ses.failed = Races
    /\ ses.pc = "receipt" => disk.bundle.price = ses.rows /\ disk.bundle.fail = ses.failed

ReceiptSound == ReceiptStands /\ RacesAccounted /\ CompleteOrTwice
RecInv == RecShape /\ ReceiptSound /\ Swept /\ Parsing /\ Gathered

LEMMA Outputs ==
    Output = {"price", "fail", "quality", "receipt", "fatal", "bundle"}
<1>1. \A i \in 1..6 : known_output_paths[i] \in {"price", "fail", "quality", "receipt", "fatal", "bundle"}
  BY DEF known_output_paths
<1>2. DOMAIN known_output_paths = 1..6
  BY DEF known_output_paths
<1> QED BY <1>1, <1>2 DEF Output, ToSet, known_output_paths

LEMMA Putting ==
    ASSUME RecShape, NEW f \in Output, NEW c, Put(f, c)
    PROVE  /\ disk' = [g \in Output |-> disk'[g]] /\ disk'[f] = c
           /\ \A g \in Output : g # f => disk'[g] = disk[g]
  BY DEF RecShape, Put

LEMMA DiskStays ==
    ASSUME RecShape, UNCHANGED disk
    PROVE  disk' = [g \in Output |-> disk'[g]] /\ Left' = Left
  BY DEF RecShape, Left

LEMMA SessionGoes ==
    ASSUME RecShape, NEW x \in Phases, SesTo(x)
    PROVE  /\ ses' \in RecSession /\ ses'.pc = x /\ ses'.held = ses.held /\ ses'.next = ses.next
           /\ ses'.rows = ses.rows /\ ses'.failed = ses.failed /\ Unheld' = Unheld
  BY DEF RecShape, SesTo, RecSession, Unheld

LEMMA SessionRests ==
    IdleSession \in RecSession
<1>1. Len(RaceOrder) \in Nat
  BY RecoveryAssumption
<1> QED BY <1>1 DEF IdleSession, RecSession, Phases

(* Files that go take nothing from what a receipt says of the others.      *)
LEMMA ReceiptKept ==
    ASSUME ReceiptSound, UNCHANGED page, disk'.receipt \in {disk.receipt, Missing},
           \A f \in {"price", "quality", "bundle"} : disk'[f] \in {disk[f], Missing}
    PROVE  ReceiptSound'
<1>1. CASE disk'.receipt = Missing
  BY <1>1 DEF ReceiptSound, ReceiptStands, RacesAccounted, CompleteOrTwice
<1>2. CASE disk'.receipt = disk.receipt
  <2>1. ReceiptStands'
    BY <1>2 DEF ReceiptSound, ReceiptStands
  <2>2. RacesAccounted'
    BY <1>2 DEF ReceiptSound, RacesAccounted
  <2>3. CompleteOrTwice'
    BY <1>2 DEF ReceiptSound, CompleteOrTwice
  <2> QED BY <2>1, <2>2, <2>3 DEF ReceiptSound
<1> QED BY <1>1, <1>2

LEMMA NoReceipt ==
    ASSUME disk'.receipt = Missing
    PROVE  ReceiptSound'
  BY DEF ReceiptSound, ReceiptStands, RacesAccounted, CompleteOrTwice

LEMMA ShapeKept ==
    ASSUME RecShape, UNCHANGED <<ver, page>>, archive' \in [Races -> [Copy -> {"none", "good", "bad"}]],
           runs' \in 0..MaxRun, changes' \in 0..MaxChange, disk' = [f \in Output |-> disk'[f]],
           ses' \in RecSession
    PROVE  RecShape'
  BY DEF RecShape, RecoveryTypeOK, RecSession

LEMMA Resting ==
    ASSUME RecShape, RecRests
    PROVE  /\ UNCHANGED <<ver, page>> /\ archive' \in [Races -> [Copy -> {"none", "good", "bad"}]]
           /\ runs' \in 0..MaxRun /\ changes' \in 0..MaxChange
  BY DEF RecShape, RecoveryTypeOK, RecRests

(* A session that ends or has not cleared yet only leaves files behind.    *)
LEMMA NotYet ==
    ASSUME RecShape', ReceiptSound', ses'.pc \in Phases, ses'.pc \notin Sweeping',
           ses'.pc \notin {"parse", "quality", "bundle", "receipt"}, ses'.rows = {}, ses'.next = 1
    PROVE  RecInv'
  BY DEF RecInv, Swept, Parsing, Gathered

LEMMA InitRecInv == RecInit => RecInv
<1> SUFFICES ASSUME RecInit PROVE RecInv
  OBVIOUS
<1>1. disk = [f \in Output |-> Missing] /\ ses = IdleSession /\ ses \in RecSession
  BY SessionRests DEF RecInit
<1>2. ses.pc = "idle" /\ ses.rows = {} /\ ses.next = 1
  BY <1>1 DEF IdleSession
<1>3. archive \in [Races -> [Copy -> {"none", "good", "bad"}]]
  BY RecoveryAssumption DEF RecInit
<1>4. RecShape
  <2>1. runs \in 0..MaxRun /\ changes \in 0..MaxChange
    BY RecoveryAssumption DEF RecInit
  <2>2. disk = [f \in Output |-> disk[f]]
    BY <1>1
  <2> QED BY <1>1, <1>3, <2>1, <2>2 DEF RecInit, RecShape, RecoveryTypeOK, RecSession
<1>5. disk.receipt = Missing
  BY <1>1, Outputs
<1>6. ReceiptSound
  BY <1>5 DEF ReceiptSound, ReceiptStands, RacesAccounted, CompleteOrTwice
<1> QED BY <1>2, <1>4, <1>6 DEF RecInv, Swept, Parsing, Gathered, Sweeping

LEMMA StartKeeps == ASSUME RecInv, Start PROVE RecInv'
<1>1. RecShape /\ ReceiptSound
  BY DEF RecInv
<1>2. /\ ses' \in RecSession /\ ses'.pc = (IF ver = "v1" THEN "bind" ELSE "clear")
      /\ ses'.rows = {} /\ ses'.next = 1
  BY SessionRests DEF Start, IdleSession, RecSession, Phases
<1>3. RecShape'
  <2>1. runs' \in 0..MaxRun /\ changes' \in 0..MaxChange
        /\ archive' \in [Races -> [Copy -> {"none", "good", "bad"}]] /\ UNCHANGED <<ver, page>>
    BY <1>1, RecoveryAssumption DEF Start, RecShape, RecoveryTypeOK
  <2>2. disk' = [f \in Output |-> disk'[f]]
    BY <1>1, DiskStays DEF Start
  <2> QED BY <1>1, <1>2, <2>1, <2>2, ShapeKept
<1>4. ReceiptSound'
  BY <1>1, ReceiptKept DEF Start
<1>5. ses'.pc \notin Sweeping'
  BY <1>2 DEF Sweeping, Start
<1> QED BY <1>2, <1>3, <1>4, <1>5, NotYet DEF Phases

(* A session that goes on without writing anything.                        *)
LEMMA OnlyGoes ==
    ASSUME RecInv, NEW x \in Phases, SesTo(x), UNCHANGED disk, RecRests
    PROVE  /\ RecShape' /\ ReceiptSound' /\ Left' = Left /\ ses'.pc = x /\ ver' = ver
           /\ ses'.rows = ses.rows /\ ses'.next = ses.next
<1>1. RecShape /\ ReceiptSound
  BY DEF RecInv
<1>2. RecShape'
  BY <1>1, Resting, DiskStays, SessionGoes, ShapeKept
<1>3. ReceiptSound'
  BY <1>1, Resting, ReceiptKept
<1> QED BY <1>1, <1>2, <1>3, Resting, DiskStays, SessionGoes

LEMMA BindKeeps == ASSUME RecInv, Bind PROVE RecInv'
<1> DEFINE x == IF ver = "v1" THEN "clear" ELSE "gate"
<1>1. /\ RecShape' /\ ReceiptSound' /\ Left' = Left /\ ses'.pc = x /\ ver' = ver
      /\ ses'.rows = ses.rows /\ ses'.next = ses.next
  BY OnlyGoes DEF Bind, Phases
<1>2. ses.pc = "bind" /\ ses.rows = {} /\ ses.next = 1
  BY DEF Bind, At, RecInv, Swept
<1>3. ver # "v1" => Left = {}
  BY <1>2 DEF RecInv, Swept, Sweeping
<1> QED BY <1>1, <1>2, <1>3 DEF RecInv, Swept, Parsing, Gathered, Sweeping

LEMMA ClearedKeeps == ASSUME RecInv, Cleared PROVE RecInv'
<1> DEFINE x == IF ver = "v1" THEN "gate" ELSE "bind"
<1>1. /\ RecShape' /\ ReceiptSound' /\ Left' = Left /\ ses'.pc = x /\ ver' = ver
      /\ ses'.rows = ses.rows /\ ses'.next = ses.next
  BY OnlyGoes DEF Cleared, AfterClearing, Phases
<1>2. ses.pc = "clear" /\ ses.rows = {} /\ ses.next = 1 /\ Left = {}
  BY DEF Cleared, At, RecInv, Swept
<1> QED BY <1>1, <1>2 DEF RecInv, Swept, Parsing, Gathered

LEMMA AdmitKeeps == ASSUME RecInv, Admit PROVE RecInv'
<1>1. /\ RecShape' /\ ReceiptSound' /\ Left' = Left /\ ses'.pc = "preflight" /\ ver' = ver
      /\ ses'.rows = ses.rows /\ ses'.next = ses.next
  BY OnlyGoes DEF Admit, Phases
<1>2. ses.pc = "gate" /\ ses.rows = {} /\ ses.next = 1 /\ Left = {}
  BY DEF Admit, At, RecInv, Swept, Sweeping
<1> QED BY <1>1, <1>2 DEF RecInv, Swept, Parsing, Gathered

LEMMA RemovalKeeps ==
    ASSUME RecInv, NEW f \in Output, Unlink(f) \/ Rmtree(f)
    PROVE  RecInv'
<1>1. RecShape /\ ReceiptSound
  BY DEF RecInv
<1>2. At("clear") /\ Put(f, Missing) /\ UNCHANGED ses /\ RecRests
  BY DEF Unlink, Rmtree
<1>3. RecShape'
  <2>1. ses' \in RecSession
    BY <1>1, <1>2 DEF RecShape
  <2> QED BY <1>1, <1>2, <2>1, Resting, Putting, ShapeKept
<1>4. \A g \in Output : disk'[g] \in {disk[g], Missing}
  BY <1>1, <1>2, Putting
<1>5. ReceiptSound'
  BY <1>1, <1>2, <1>4, Outputs, ReceiptKept, Resting
<1>6. ses'.pc = "clear" /\ ses'.rows = {} /\ ses'.next = 1
  BY <1>2 DEF At, RecInv, Swept
<1> QED BY <1>3, <1>5, <1>6, NotYet DEF Phases, Sweeping

(* A session that ends, with or without a fatal record.                    *)
LEMMA EndKeeps ==
    ASSUME RecInv, ses' = IdleSession, RecRests, UNCHANGED disk \/ \E c : Put("fatal", c)
    PROVE  RecInv'
<1>1. RecShape /\ ReceiptSound
  BY DEF RecInv
<1>2. disk' = [f \in Output |-> disk'[f]] /\ \A g \in Output \ {"fatal"} : disk'[g] = disk[g]
  <2>1. CASE UNCHANGED disk
    BY <1>1, <2>1, DiskStays
  <2>2. CASE \E c : Put("fatal", c)
    BY <1>1, <2>2, Putting, Outputs
  <2> QED BY <2>1, <2>2
<1>3. RecShape'
  BY <1>1, <1>2, Resting, SessionRests, ShapeKept
<1>4. ReceiptSound'
  BY <1>1, <1>2, Outputs, Resting, ReceiptKept
<1>5. ses'.pc = "idle" /\ ses'.rows = {} /\ ses'.next = 1
  BY DEF IdleSession
<1> QED BY <1>3, <1>4, <1>5, NotYet DEF Phases, Sweeping

LEMMA RefuseKeeps == ASSUME RecInv, Refuse PROVE RecInv'
<1>1. ses' = IdleSession /\ RecRests /\ (UNCHANGED disk \/ \E c : Put("fatal", c))
  BY DEF Refuse
<1> QED BY <1>1, EndKeeps

LEMMA KillKeeps == ASSUME RecInv, Kill PROVE RecInv'
  BY EndKeeps DEF Kill

(* Before the first page is parsed there is nothing but an empty catalog,  *)
(* and the races that no page is held of have failed.                      *)
LEMMA HoldKeeps ==
    ASSUME RecInv, NEW held \in SUBSET (Races \X (Copy \cup {"bytes"})), NEW failed \in SUBSET Races,
           Hold(held, failed), failed = {r \in Races : \A h \in held : h[1] # r}
    PROVE  RecInv'
<1>1. RecShape /\ ses.pc = "preflight" /\ ses.rows = {} /\ ses.next = 1 /\ Left = {}
  BY DEF RecInv, Hold, At, Swept, Sweeping
<1>2. /\ ses' \in RecSession /\ ses'.pc = "parse" /\ ses'.rows = {} /\ ses'.next = 1
      /\ ses'.held = held /\ ses'.failed = failed
  <2>1. ses' = [ses EXCEPT !.pc = "parse", !.held = held, !.failed = failed]
    BY DEF Hold
  <2> QED BY <1>1, <2>1 DEF RecShape, RecSession, Phases
<1>3. disk'.price = {} /\ disk'.receipt = Missing /\ disk' = [f \in Output |-> disk'[f]]
  BY <1>1, Outputs, Putting DEF Hold, Left
<1>4. RecShape'
  BY <1>1, <1>2, <1>3, Resting, ShapeKept DEF Hold
<1>5. ReceiptSound'
  BY <1>3, NoReceipt
<1>6. Unheld' = failed /\ Done(ses'.next) = {}
  BY <1>2 DEF Unheld, Done
<1>7. Parsing'
  BY <1>2, <1>3, <1>6 DEF Parsing, Done
<1> QED BY <1>2, <1>4, <1>5, <1>7 DEF RecInv, Swept, Gathered, Sweeping

LEMMA PreflightKeeps == ASSUME RecInv, Preflight_v1 \/ Preflight_v2 PROVE RecInv'
<1>1. CASE Preflight_v2
  <2> DEFINE held == {h \in Races \X Copy : h[2] \in Verified_v2(h[1])}
             failed == {r \in Races : Verified_v2(r) = {}}
  <2>1. Hold(held, failed)
    BY <1>1 DEF Preflight_v2
  <2>2. \A r : Verified_v2(r) \subseteq Copy
    BY DEF Verified_v2, resolve_raw_path, Present, Copy
  <2>3. failed = {r \in Races : \A h \in held : h[1] # r}
    <3>1. ASSUME NEW r \in Races, Verified_v2(r) # {} PROVE \E h \in held : h[1] = r
      <4>1. PICK c \in Verified_v2(r) : TRUE
        BY <3>1
      <4>2. <<r, c>> \in held
        BY <2>2, <4>1
      <4> QED BY <4>2
    <3> QED BY <3>1
  <2>4. held \in SUBSET (Races \X (Copy \cup {"bytes"})) /\ failed \in SUBSET Races
    OBVIOUS
  <2> HIDE DEF held, failed
  <2> QED BY <2>1, <2>3, <2>4, HoldKeeps
<1>2. CASE Preflight_v1
  <2> DEFINE failed == {r \in Races : resolve_raw_result_path(r) = {}}
  <2>1. Hold(HeldBytes, failed)
    BY <1>2 DEF Preflight_v1
  <2>2. failed = {r \in Races : \A h \in HeldBytes : h[1] # r}
    <3>1. ASSUME NEW r \in Races, resolve_raw_result_path(r) # {} PROVE \E h \in HeldBytes : h[1] = r
      <4>1. <<r, "bytes">> \in HeldBytes
        BY <3>1 DEF HeldBytes
      <4> QED BY <4>1
    <3>2. \A h \in HeldBytes : resolve_raw_result_path(h[1]) # {}
      BY DEF HeldBytes
    <3> QED BY <3>1, <3>2
  <2>3. HeldBytes \in SUBSET (Races \X (Copy \cup {"bytes"})) /\ failed \in SUBSET Races
    BY DEF HeldBytes
  <2> HIDE DEF failed
  <2> QED BY <2>1, <2>2, <2>3, HoldKeeps
<1> QED BY <1>1, <1>2

(* The next race is none of those before it.                               *)
LEMMA NextRace ==
    ASSUME NEW k \in 1..Len(RaceOrder)
    PROVE  /\ RaceOrder[k] \in Races /\ RaceOrder[k] \notin Done(k)
           /\ Done(k + 1) = Done(k) \cup {RaceOrder[k]} /\ k + 1 \in 1..(Len(RaceOrder) + 1)
<1>1. Len(RaceOrder) \in Nat /\ RaceOrder[k] \in Races
  BY RecoveryAssumption
<1>2. \A i, j \in 1..Len(RaceOrder) : i # j => RaceOrder[i] # RaceOrder[j]
  BY RecoveryAssumption
<1>3. RaceOrder[k] \notin Done(k)
  BY <1>1, <1>2 DEF Done
<1>4. 1..(k + 1 - 1) = 1..(k - 1) \cup {k}
  BY <1>1
<1>5. Done(k + 1) = Done(k) \cup {RaceOrder[k]}
  BY <1>4 DEF Done
<1> QED BY <1>1, <1>3, <1>5

(* Another race is passed: in the catalog, failed now, or failed before.   *)
LEMMA PassedKeeps ==
    ASSUME RecInv, ses.pc = "parse", ses.next \in 1..Len(RaceOrder), RecRests,
           NEW r, r = RaceOrder[ses.next], NEW rows \in SUBSET Races, NEW failed \in SUBSET Races,
           ses' = [ses EXCEPT !.next = ses.next + 1, !.rows = rows, !.failed = failed],
           disk' = [f \in Output |-> disk'[f]], disk'.receipt = Missing, disk'.price = rows,
           \/ rows = ses.rows /\ failed = ses.failed /\ r \in Unheld
           \/ rows = ses.rows \cup {r} /\ failed = ses.failed /\ r \notin Unheld /\ parse_payload(page[r])
           \/ rows = ses.rows /\ failed = ses.failed \cup {r} /\ r \notin Unheld
    PROVE  RecInv'
<1>1. RecShape /\ Parsing
  BY DEF RecInv
<1>2. ses \in RecSession
  BY <1>1 DEF RecShape
<1>3. /\ r \in Races /\ r \notin Done(ses.next) /\ Done(ses.next + 1) = Done(ses.next) \cup {r}
      /\ ses.next + 1 \in 1..(Len(RaceOrder) + 1)
  BY NextRace
<1>4. /\ ses' \in RecSession /\ ses'.pc = "parse" /\ ses'.next = ses.next + 1 /\ ses'.held = ses.held
      /\ ses'.rows = rows /\ ses'.failed = failed
  BY <1>2, <1>3 DEF RecSession
<1>5. RecShape'
  BY <1>1, <1>4, Resting, ShapeKept
<1>6. ReceiptSound'
  BY NoReceipt
<1>7. Unheld' = Unheld /\ page' = page
  BY <1>4 DEF Unheld, RecRests
<1>8. /\ \A x \in ses.rows : parse_payload(page[x])
      /\ ses.rows \cap ses.failed = {} /\ Unheld \subseteq ses.failed
      /\ ses.rows \subseteq Done(ses.next) /\ ses.failed \subseteq Unheld \cup Done(ses.next)
      /\ Done(ses.next) \subseteq ses.rows \cup ses.failed
  BY <1>1 DEF Parsing
<1>9. /\ \A x \in rows : parse_payload(page[x])
      /\ rows \cap failed = {} /\ Unheld \subseteq failed
      /\ rows \subseteq Done(ses.next + 1) /\ failed \subseteq Unheld \cup Done(ses.next + 1)
      /\ Done(ses.next + 1) \subseteq rows \cup failed
  BY <1>3, <1>8
<1>10. Parsing'
  <2>1. \A x : parse_payload(page[x])' = parse_payload(page[x])
    BY <1>7 DEF parse_payload
  <2>2. Done(ses.next)' = Done(ses.next + 1)
    BY <1>4 DEF Done
  <2>3. \A x \in ses'.rows : parse_payload(page[x])'
    BY <1>4, <1>9, <2>1
  <2>4. /\ ses'.rows \cap ses'.failed = {} /\ Unheld' \subseteq ses'.failed
        /\ ses'.rows \subseteq Done(ses.next)' /\ ses'.failed \subseteq Unheld' \cup Done(ses.next)'
        /\ Done(ses.next)' \subseteq ses'.rows \cup ses'.failed
    BY <1>4, <1>7, <1>9, <2>2
  <2>5. disk'.receipt = Missing /\ disk'.price = ses'.rows
    BY <1>4
  <2> QED BY <2>3, <2>4, <2>5 DEF Parsing
<1> QED BY <1>4, <1>5, <1>6, <1>10 DEF RecInv, Swept, Gathered, Sweeping

LEMMA ParseKeeps == ASSUME RecInv, ParseRace_v1 \/ ParseRace_v2 PROVE RecInv'
<1> DEFINE r == RaceOrder[ses.next]
           held == {h \in ses.held : h[1] = r}
           step == [ses EXCEPT !.next = ses.next + 1]
<1>1. /\ ses.pc = "parse" /\ ses.next \in 1..Len(RaceOrder) /\ RecRests
      /\ \/ held = {} /\ ses' = step /\ UNCHANGED disk
         \/ /\ held # {} /\ parse_payload(page[r])
            /\ ses' = [step EXCEPT !.rows = step.rows \cup {r}] /\ Put("price", disk.price \cup {r})
         \/ held # {} /\ ses' = [step EXCEPT !.failed = step.failed \cup {r}] /\ UNCHANGED disk
  <2>1. ses.next \in 1..(Len(RaceOrder) + 1) /\ Len(RaceOrder) \in Nat
    BY RecoveryAssumption DEF RecInv, RecShape, RecSession
  <2>2. CASE ParseRace_v1
    BY <2>1, <2>2 DEF ParseRace_v1, Parse, At
  <2>3. CASE ParseRace_v2
    BY <2>1, <2>3 DEF ParseRace_v2, Parse, At
  <2> QED BY <2>2, <2>3
<1>2. RecShape /\ Parsing /\ ses \in RecSession /\ ses.rows \in SUBSET Races /\ ses.failed \in SUBSET Races
  BY DEF RecInv, RecShape, RecSession
<1>3. disk.receipt = Missing /\ disk.price = ses.rows /\ r \in Races
  BY <1>1, <1>2, NextRace DEF Parsing
<1>4. held = {} <=> r \in Unheld
  BY <1>3 DEF Unheld
<1>5. CASE held = {} /\ ses' = step /\ UNCHANGED disk
  <2>1. ses' = [ses EXCEPT !.next = ses.next + 1, !.rows = ses.rows, !.failed = ses.failed]
    BY <1>2, <1>5 DEF RecSession
  <2>2. disk' = [f \in Output |-> disk'[f]] /\ disk'.receipt = Missing /\ disk'.price = ses.rows
    BY <1>2, <1>3, <1>5, DiskStays
  <2>3. ses.pc = "parse" /\ ses.next \in 1..Len(RaceOrder) /\ RecRests /\ r \in Unheld
    BY <1>1, <1>4, <1>5
  <2> HIDE DEF held, step
  <2> QED BY <1>2, <2>1, <2>2, <2>3, PassedKeeps
<1>6. CASE /\ held # {} /\ parse_payload(page[r])
           /\ ses' = [step EXCEPT !.rows = step.rows \cup {r}] /\ Put("price", disk.price \cup {r})
  <2>1. ses' = [ses EXCEPT !.next = ses.next + 1, !.rows = ses.rows \cup {r}, !.failed = ses.failed]
    BY <1>2, <1>6 DEF RecSession
  <2>2. /\ disk' = [f \in Output |-> disk'[f]] /\ disk'.receipt = Missing
        /\ disk'.price = ses.rows \cup {r}
    BY <1>2, <1>3, <1>6, Outputs, Putting
  <2>3. ses.rows \cup {r} \in SUBSET Races /\ r \notin Unheld /\ parse_payload(page[r])
    BY <1>2, <1>3, <1>4, <1>6
  <2>4. ses.pc = "parse" /\ ses.next \in 1..Len(RaceOrder) /\ RecRests
    BY <1>1
  <2> HIDE DEF held, step
  <2> QED BY <1>2, <2>1, <2>2, <2>3, <2>4, PassedKeeps
<1>7. CASE /\ held # {} /\ ses' = [step EXCEPT !.failed = step.failed \cup {r}] /\ UNCHANGED disk
  <2>1. ses' = [ses EXCEPT !.next = ses.next + 1, !.rows = ses.rows, !.failed = ses.failed \cup {r}]
    BY <1>2, <1>7 DEF RecSession
  <2>2. disk' = [f \in Output |-> disk'[f]] /\ disk'.receipt = Missing /\ disk'.price = ses.rows
    BY <1>2, <1>3, <1>7, DiskStays
  <2>3. ses.failed \cup {r} \in SUBSET Races /\ r \notin Unheld
    BY <1>2, <1>3, <1>4, <1>7
  <2>4. ses.pc = "parse" /\ ses.next \in 1..Len(RaceOrder) /\ RecRests
    BY <1>1
  <2> HIDE DEF held, step
  <2> QED BY <1>2, <2>1, <2>2, <2>3, <2>4, PassedKeeps
<1> QED BY <1>1, <1>5, <1>6, <1>7

(* A report written after the last page changes none of the others.        *)
LEMMA ReportKeeps ==
    ASSUME RecInv, ses.pc \in {"parse", "quality", "bundle"}, RecRests,
           NEW x \in {"quality", "bundle", "receipt"}, SesTo(x),
           NEW f \in {"fail", "quality", "bundle"}, NEW c, Put(f, c), Gathered'
    PROVE  RecInv'
<1>1. RecShape /\ Parsing
  BY DEF RecInv
<1>2. /\ ses' \in RecSession /\ ses'.pc = x /\ ses'.next = ses.next
      /\ ses'.rows = ses.rows /\ ses'.failed = ses.failed /\ Unheld' = Unheld
  BY <1>1, SessionGoes DEF Phases
<1>3. /\ disk' = [g \in Output |-> disk'[g]] /\ disk'.receipt = disk.receipt
      /\ disk'.price = disk.price
  BY <1>1, Outputs, Putting
<1>4. RecShape'
  BY <1>1, <1>2, <1>3, Resting, ShapeKept
<1>5. disk'.receipt = Missing /\ ReceiptSound'
  BY <1>1, <1>3, NoReceipt DEF Parsing
<1>6. Parsing'
  <2>1. \A r : parse_payload(page[r])' = parse_payload(page[r])
    BY DEF parse_payload, RecRests
  <2>2. Done(ses.next)' = Done(ses.next)
    BY <1>2 DEF Done
  <2>3. \A r \in ses'.rows : parse_payload(page[r])'
    BY <1>1, <1>2, <2>1 DEF Parsing
  <2>4. disk'.receipt = Missing /\ disk'.price = ses'.rows
    BY <1>1, <1>2, <1>3, <1>5 DEF Parsing
  <2> QED BY <1>1, <1>2, <2>2, <2>3, <2>4 DEF Parsing
<1> QED BY <1>2, <1>4, <1>5, <1>6 DEF RecInv, Swept, Sweeping

LEMMA WriteFailuresKeeps == ASSUME RecInv, WriteFailures PROVE RecInv'
<1>1. RecShape /\ Parsing /\ ses.pc = "parse" /\ ses \in RecSession
  BY DEF RecInv, RecShape, WriteFailures, At
<1>2. Done(ses.next) = Races
  <2>1. ses.next = Len(RaceOrder) + 1 /\ Len(RaceOrder) \in Nat
    BY <1>1, RecoveryAssumption DEF WriteFailures, RecSession
  <2>2. DOMAIN RaceOrder = 1..Len(RaceOrder) /\ 1..(ses.next - 1) = 1..Len(RaceOrder)
    BY <2>1, RecoveryAssumption
  <2> QED BY <2>2 DEF Done, Races, ToSet
<1>3. ses.rows \cup ses.failed = Races
  BY <1>1, <1>2 DEF Parsing, RecSession
<1>4. Gathered'
  <2>1. ses'.pc = "quality" /\ ses'.rows = ses.rows /\ ses'.failed = ses.failed
    BY <1>1, SessionGoes DEF WriteFailures, Phases
  <2>2. disk'.fail = ses.failed
    BY <1>1, Outputs, Putting DEF WriteFailures
  <2> QED BY <1>3, <2>1, <2>2 DEF Gathered
<1> QED BY <1>1, <1>4, ReportKeeps DEF WriteFailures

LEMMA WriteQualityKeeps == ASSUME RecInv, WriteQuality PROVE RecInv'
<1>1. RecShape /\ Gathered /\ ses.pc = "quality"
  BY DEF RecInv, WriteQuality, At
<1>2. PICK c : Put("quality", c) /\ SesTo("bundle") /\ RecRests
  BY DEF WriteQuality
<1>3. Gathered'
  <2>1. ses'.pc = "bundle" /\ ses'.rows = ses.rows /\ ses'.failed = ses.failed
    BY <1>1, <1>2, SessionGoes DEF Phases
  <2>2. disk'.fail = disk.fail
    BY <1>1, <1>2, Outputs, Putting
  <2> QED BY <1>1, <2>1, <2>2 DEF Gathered
<1> QED BY <1>1, <1>2, <1>3, ReportKeeps

LEMMA WriteBundleKeeps == ASSUME RecInv, WriteBundle PROVE RecInv'
<1>1. RecShape /\ Gathered /\ Parsing /\ ses.pc = "bundle"
  BY DEF RecInv, WriteBundle, At
<1>2. PICK b : b = [price |-> disk.price, fail |-> disk.fail, quality |-> disk.quality]
  OBVIOUS
<1>3. Put("bundle", b) /\ SesTo("receipt") /\ RecRests
  BY <1>2 DEF WriteBundle
<1>4. b.price = ses.rows /\ b.fail = ses.failed
  BY <1>1, <1>2 DEF Gathered, Parsing
<1>5. Gathered'
  <2>1. ses'.pc = "receipt" /\ ses'.rows = ses.rows /\ ses'.failed = ses.failed
    BY <1>1, <1>3, SessionGoes DEF Phases
  <2>2. disk'.fail = disk.fail /\ disk'.bundle = b
    BY <1>1, <1>3, Outputs, Putting
  <2> QED BY <1>1, <1>4, <2>1, <2>2 DEF Gathered
<1> QED BY <1>1, <1>3, <1>5, ReportKeeps

(* The receipt cites what lies there; PASS_COMPLETE needs every race in    *)
(* the catalog, and each of them was parsed.                               *)
LEMMA WriteReceiptKeeps == ASSUME RecInv, WriteReceipt PROVE RecInv'
<1>1. RecShape /\ Gathered /\ Parsing /\ ses.pc = "receipt"
  BY DEF RecInv, WriteReceipt, At
<1>2. PICK q : q = [status |-> Status, price |-> disk.price, quality |-> disk.quality,
                    bundle |-> disk.bundle]
  OBVIOUS
<1>3. Put("receipt", q) /\ ses' = IdleSession /\ RecRests
  BY <1>2 DEF WriteReceipt
<1>4. /\ disk' = [f \in Output |-> disk'[f]] /\ disk'.receipt = q
      /\ disk'.price = disk.price /\ disk'.quality = disk.quality /\ disk'.bundle = disk.bundle
  BY <1>1, <1>3, Outputs, Putting
<1>5. q.price = ses.rows /\ q.bundle.price = ses.rows /\ q.bundle.fail = ses.failed
  BY <1>1, <1>2 DEF Gathered, Parsing
<1>6. RecShape'
  BY <1>1, <1>3, <1>4, Resting, SessionRests, ShapeKept
<1>7. ReceiptStands'
  BY <1>2, <1>4 DEF ReceiptStands
<1>8. RacesAccounted'
  BY <1>1, <1>4, <1>5 DEF RacesAccounted, Gathered, Parsing
<1>9. CompleteOrTwice'
  <2> SUFFICES ASSUME q.status = "PASS_COMPLETE" PROVE CompleteOrTwice'
    BY <1>4 DEF CompleteOrTwice
  <2>1. ses.rows = Races
    BY <1>2 DEF Status, Complete_v1, Complete_v2
  <2>2. \A r \in Races : page[r] \in Page /\ parse_payload(page[r])
    BY <1>1, <2>1 DEF Parsing, RecShape
  <2>3. \A r \in Races : Priced(page[r])
    BY <2>2, ParsedIsPriced
  <2>4. page' = page
    BY <1>3 DEF RecRests
  <2> QED BY <1>4, <1>5, <2>1, <2>3, <2>4 DEF CompleteOrTwice, Priced, Twice
<1>10. ses'.pc = "idle" /\ ses'.rows = {} /\ ses'.next = 1
  BY <1>3 DEF IdleSession
<1> QED BY <1>6, <1>7, <1>8, <1>9, <1>10, NotYet DEF ReceiptSound, Phases, Sweeping

(* The archive is nowhere in what a session has taken from it.             *)
LEMMA ChangeKeeps ==
    ASSUME RecInv, UNCHANGED <<ver, page, disk, ses, runs>>, changes' \in 0..MaxChange,
           archive' \in [Races -> [Copy -> {"none", "good", "bad"}]]
    PROVE  RecInv'
<1>1. RecShape /\ ReceiptSound /\ Swept /\ Parsing /\ Gathered
  BY DEF RecInv
<1>2. RecShape'
  BY <1>1, ShapeKept DEF RecShape, RecoveryTypeOK
<1>3. ReceiptSound'
  BY <1>1, ReceiptKept
<1>4. Swept'
  BY <1>1 DEF Swept, Sweeping, Left
<1>5. Parsing'
  <2>1. Unheld' = Unheld /\ Done(ses.next)' = Done(ses.next)
    BY DEF Unheld, Done
  <2>2. \A r : parse_payload(page[r])' = parse_payload(page[r])
    BY DEF parse_payload
  <2>3. ses' = ses /\ disk' = disk
    OBVIOUS
  <2> QED BY <1>1, <2>1, <2>2, <2>3 DEF Parsing
<1>6. Gathered'
  BY <1>1 DEF Gathered
<1> QED BY <1>2, <1>3, <1>4, <1>5, <1>6 DEF RecInv

LEMMA RecNextKeeps == ASSUME RecInv, [RecNext]_recoveryVars PROVE RecInv'
<1>1. ASSUME NEW r \in Races, NEW c \in Copy, Change(r, c) PROVE RecInv'
  <2>1. archive \in [Races -> [Copy -> {"none", "good", "bad"}]] /\ changes \in 0..MaxChange
    BY DEF RecInv, RecShape, RecoveryTypeOK
  <2>2. changes' \in 0..MaxChange
    BY <1>1, <2>1, RecoveryAssumption DEF Change
  <2>3. PICK s \in {"none", "good", "bad"} : archive' = [archive EXCEPT ![r][c] = s]
    BY <1>1 DEF Change
  <2>4. archive' \in [Races -> [Copy -> {"none", "good", "bad"}]]
    BY <2>1, <2>3
  <2> QED BY <1>1, <2>2, <2>4, ChangeKeeps DEF Change
<1>2. CASE UNCHANGED recoveryVars
  <2>1. archive' \in [Races -> [Copy -> {"none", "good", "bad"}]] /\ changes' \in 0..MaxChange
    BY <1>2 DEF recoveryVars, RecInv, RecShape, RecoveryTypeOK
  <2> QED BY <1>2, <2>1, ChangeKeeps DEF recoveryVars
<1> QED BY <1>1, <1>2, StartKeeps, RemovalKeeps, BindKeeps, ClearedKeeps, RefuseKeeps, AdmitKeeps,
           PreflightKeeps, ParseKeeps, WriteFailuresKeeps, WriteQualityKeeps, WriteBundleKeeps,
           WriteReceiptKeeps, KillKeeps DEF RecNext

(* Stage 0 (stage0_price_bulk_runner_v1.py and v2) with any races, pages   *)
(* and copies, an archive that changes and sessions that are killed: no    *)
(* receipt lies beside what it does not cite, every race is accounted for, *)
(* and a catalog that is called complete lacks no more tickets of a car    *)
(* market than it has keys that name one car twice.                        *)
THEOREM RecoveryInvariantHolds == RecSpec => []RecoveryInvariant
<1>1. RecInv => RecoveryInvariant
  BY DEF RecInv, RecShape, ReceiptSound, RecoveryInvariant
<1> QED BY InitRecInv, RecNextKeeps, <1>1, PTL DEF RecSpec
=============================================================================
