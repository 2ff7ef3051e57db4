------------------------ MODULE EnrollmentListProofs ------------------------
(***************************************************************************)
(* The types of the composition, and the walk through the list of          *)
(* enrollments: a client that reads page after page misses no row that is  *)
(* there all the time, however many rows come in meanwhile.                *)
(*                                                                         *)
(* The invariant of the walk: whatever a reader has not seen yet is behind *)
(* the pages it has read (WalkInv).  Inserted rows only push it further.   *)
(***************************************************************************)
EXTENDS EnrollmentApiProofs, SequenceTheorems

(* The enrollments the list may show.                                      *)
Listable == Request \cup OldRow

(***************************************************************************)
(* Pages of a sequence                                                     *)
(***************************************************************************)
(* The rows behind the first n.                                            *)
Behind(n) == {newest[i] : i \in {j \in DOMAIN newest : j > n}}

(* The pages before the next one end where it begins.                      *)
LEMMA PageEnds ==
  ASSUME NEW p \in Nat \ {0}
  PROVE  /\ (p - 1) * Limit \in Nat /\ p * Limit \in Nat
         /\ p * Limit = (p - 1) * Limit + Limit
         /\ (p + 1 - 1) * Limit = p * Limit
         /\ (1 - 1) * Limit = 0
  BY LimitAssumption

(* Math.ceil: as many pages as the rows need.                              *)
LEMMA PagesSuffice ==
  ASSUME NEW p \in Nat \ {0}, NEW total \in Nat, ~ (p < L!TotalPages(total))
  PROVE  total <= p * Limit
<1> DEFINE x == total + Limit - 1
           d == x \div Limit
<1>1. x \in Nat /\ d \in Int /\ x < d * Limit + Limit
  BY LimitAssumption
<1>2. d <= p
  BY <1>1 DEF L!TotalPages
<1>3. d * Limit <= p * Limit
  BY <1>1, <1>2, LimitAssumption
<1> QED
  BY <1>1, <1>3, LimitAssumption

(* A page takes its rows off what is behind the pages before it, and a     *)
(* page that is not full leaves nothing behind.                            *)
LEMMA PageTakes ==
  ASSUME newest \in Seq(Listable), NEW p \in Nat \ {0}
  PROVE  LET rows == L!PageOf(p)
             listed == {rows[i] : i \in DOMAIN rows}
         IN  /\ Len(rows) \in 0 .. Limit
             /\ Behind((p - 1) * Limit) \ listed \subseteq Behind(p * Limit)
             /\ Len(rows) < Limit => Behind((p - 1) * Limit) \subseteq listed
<1> DEFINE a == (p - 1) * Limit
           b == L!LastOf(p * Limit, Len(newest))
           rows == L!PageOf(p)
           listed == {rows[i] : i \in DOMAIN rows}
<1>1. a \in Nat /\ p * Limit = a + Limit /\ Limit \in Nat \ {0} /\ Len(newest) \in Nat
  BY PageEnds, LimitAssumption
<1>2. /\ rows = SubSeq(newest, a + 1, b)
      /\ b \in Nat /\ b <= Len(newest) /\ b <= a + Limit
      /\ b = a + Limit \/ b = Len(newest)
  BY <1>1 DEF L!PageOf, L!LastOf
<1> HIDE DEF a, b, rows
<1>3. \A i \in a + 1 .. b : newest[i] \in Listable
  BY <1>1, <1>2, ElementOfSeq
<1>4. /\ rows \in Seq(Listable)
      /\ Len(rows) = IF a + 1 <= b THEN b - a ELSE 0
      /\ \A i \in 1 .. b - a : rows[i] = newest[a + i]
  <2>1. /\ rows \in Seq(Listable)
        /\ Len(rows) = IF a + 1 <= b THEN b - (a + 1) + 1 ELSE 0
        /\ \A i \in 1 .. b - (a + 1) + 1 : rows[i] = newest[(a + 1) + i - 1]
    <3>1. a + 1 \in Int /\ b \in Int
      BY <1>1, <1>2
    <3> QED
      BY <1>2, <1>3, <3>1, SubSeqProperties
  <2> QED
    BY <1>1, <1>2, <2>1
<1>5. DOMAIN rows = 1 .. Len(rows) /\ DOMAIN newest = 1 .. Len(newest)
  BY <1>4
<1>6. ASSUME NEW i \in a + 1 .. b PROVE newest[i] \in listed
  <2>0. i \in Int /\ a + 1 <= i /\ i <= b
    BY <1>1, <1>2
  <2>1. i - a \in 1 .. b - a /\ a + (i - a) = i
    BY <1>1, <1>2, <2>0
  <2>3. Len(rows) = b - a
    BY <1>1, <1>2, <1>4, <2>0
  <2>2. rows[i - a] = newest[i]
    BY <1>4, <2>1
  <2> QED
    BY <1>5, <2>1, <2>2, <2>3
<1>7. Behind(a) \ listed \subseteq Behind(a + Limit)
  <2> SUFFICES ASSUME NEW i \in 1 .. Len(newest), i > a, newest[i] \notin listed
               PROVE  i > a + Limit
    BY <1>1, <1>5 DEF Behind
  <2>1. /\ a \in Nat /\ Limit \in Nat /\ Len(newest) \in Nat /\ b \in Nat
        /\ i \in Int /\ i <= Len(newest) /\ (b = a + Limit \/ b = Len(newest))
    BY <1>1, <1>2
  <2>2. i \notin a + 1 .. b
    BY <1>6
  <2>3. b < i
    BY <2>1, <2>2
  <2> QED
    BY <2>1, <2>3
<1>8. Len(rows) < Limit => Behind(a) \subseteq listed
  <2> SUFFICES ASSUME Len(rows) < Limit, NEW i \in 1 .. Len(newest), i > a
               PROVE  newest[i] \in listed
    BY <1>5 DEF Behind
  <2>1. /\ a \in Nat /\ Limit \in Nat /\ Len(newest) \in Nat /\ b \in Nat
        /\ i \in Int /\ i <= Len(newest) /\ (b = a + Limit \/ b = Len(newest))
    BY <1>1, <1>2
  <2>2. b # a + Limit
    BY <1>4, <2>1
  <2>3. i \in a + 1 .. b
    BY <2>1, <2>2
  <2> QED
    BY <1>6, <2>3
<1>9. Len(rows) \in 0 .. Limit
  BY <1>1, <1>2, <1>4
<1> QED
  BY <1>1, <1>7, <1>8, <1>9 DEF a, rows

(* An inserted row pushes the others back.                                 *)
LEMMA InsertPushes ==
  ASSUME newest \in Seq(Listable), NEW r \in Listable,
         NEW i \in 1 .. Len(newest) + 1, newest' = InsertAt(newest, i, r), NEW n \in Nat
  PROVE  newest' \in Seq(Listable) /\ Behind(n) \subseteq Behind(n)'
<1> DEFINE front == SubSeq(newest, 1, i - 1)
           back == SubSeq(newest, i, Len(newest))
<1>1. /\ front \in Seq(Listable) /\ Len(front) = i - 1
      /\ \A j \in 1 .. i - 1 : front[j] = newest[j]
  BY SubSeqProperties, ElementOfSeq
<1>2. /\ back \in Seq(Listable) /\ Len(back) = Len(newest) - i + 1
      /\ \A j \in 1 .. Len(newest) - i + 1 : back[j] = newest[i + j - 1]
  BY SubSeqProperties, ElementOfSeq
<1>3. newest' = (front \o <<r>>) \o back
  BY DEF InsertAt
<1> HIDE DEF front, back
<1>4. /\ front \o <<r>> \in Seq(Listable) /\ Len(front \o <<r>>) = i
      /\ \A j \in 1 .. i - 1 : (front \o <<r>>)[j] = newest[j]
  BY <1>1
<1>5. /\ newest' \in Seq(Listable) /\ Len(newest') = Len(newest) + 1
      /\ \A j \in 1 .. i - 1 : newest'[j] = newest[j]
      /\ \A j \in i .. Len(newest) : newest'[j + 1] = newest[j]
  <2> DEFINE f == front \o <<r>>
  <2> HIDE DEF f
  <2>1. f \in Seq(Listable) /\ Len(f) = i /\ newest' = f \o back /\ \A j \in 1 .. i - 1 : f[j] = newest[j]
    BY <1>3, <1>4 DEF f
  <2>2. /\ newest' \in Seq(Listable) /\ Len(newest') = i + Len(back)
        /\ \A j \in 1 .. i + Len(back) : newest'[j] = IF j <= i THEN f[j] ELSE back[j - i]
    BY <1>2, <2>1, ConcatProperties
  <2> QED
    BY <1>2, <2>1, <2>2
<1>6. DOMAIN newest = 1 .. Len(newest) /\ DOMAIN newest' = 1 .. Len(newest) + 1
  BY <1>5
<1>7. ASSUME NEW j \in DOMAIN newest, j > n
      PROVE  \E k \in DOMAIN newest' : k > n /\ newest'[k] = newest[j]
  <2>1. CASE j < i
    BY <1>5, <1>6, <1>7, <2>1
  <2>2. CASE j >= i
    <3>1. j + 1 \in DOMAIN newest' /\ j + 1 > n /\ newest'[j + 1] = newest[j]
      BY <1>5, <1>6, <1>7, <2>2
    <3> QED
      BY <3>1
  <2> QED
    BY <1>6, <2>1, <2>2
<1> QED
  BY <1>5, <1>7 DEF Behind

LEMMA RemoveIsSeq ==
  ASSUME newest \in Seq(Listable), NEW i \in DOMAIN newest
  PROVE  RemoveAt(newest, i) \in Seq(Listable)
<1>1. i \in 1 .. Len(newest)
  OBVIOUS
<1>2. SubSeq(newest, 1, i - 1) \in Seq(Listable) /\ SubSeq(newest, i + 1, Len(newest)) \in Seq(Listable)
  BY <1>1, SubSeqProperties, ElementOfSeq
<1> QED
  BY <1>2 DEF RemoveAt

(***************************************************************************)
(* The walk                                                                *)
(***************************************************************************)
ListTypes == newest \in Seq(Listable) /\ L!ListTypeOK

(* What a reader is missing is behind the pages it has read; after a page  *)
(* that was not full there is nothing behind.                              *)
WalkInv(q) ==
  /\ at[q] = "find" /\ page[q] = 1 => missing[q] = {}
  /\ at[q] = "find" => missing[q] \subseteq Behind((page[q] - 1) * Limit)
  /\ at[q] = "count" => missing[q] \subseteq Behind(page[q] * Limit)
  /\ at[q] = "count" /\ got[q] < Limit => missing[q] = {}
  /\ at[q] = "done" => missing[q] = {}

Listed == ListTypes /\ \A q \in Reader : WalkInv(q)

LEMMA InitListed == Init => Listed
<1> SUFFICES ASSUME Init PROVE Listed
  OBVIOUS
<1>1. ListTypes
  <2>1. newest \in Seq(Listable)
    BY EarlierAssumption DEF Init, Listable
  <2> QED
    BY <2>1, LimitAssumption DEF Init, L!ListInit, ListTypes, L!ListTypeOK
<1>2. \A q \in Reader : WalkInv(q)
  BY DEF Init, L!ListInit, WalkInv
<1> QED
  BY <1>1, <1>2 DEF Listed

LEMMA FindWalks ==
  ASSUME Listed, UNCHANGED newest, NEW q \in Reader, L!Find(q)
  PROVE  Listed'
<1> USE DEF Listed, ListTypes, L!ListTypeOK
<1> DEFINE rows == L!PageOf(page[q])
           listed == {rows[i] : i \in DOMAIN rows}
           before == IF page[q] = 1 THEN L!Rows ELSE missing[q]
<1>1. page[q] \in Nat \ {0} /\ at[q] = "find" /\ newest \in Seq(Listable)
  BY DEF L!Find
<1>2. /\ Len(rows) \in 0 .. Limit
      /\ Behind((page[q] - 1) * Limit) \ listed \subseteq Behind(page[q] * Limit)
      /\ Len(rows) < Limit => Behind((page[q] - 1) * Limit) \subseteq listed
  BY <1>1, PageTakes
<1>3. before \subseteq Behind((page[q] - 1) * Limit)
  <2>1. CASE page[q] = 1
    <3>1. (page[q] - 1) * Limit = 0 /\ DOMAIN newest \subseteq Nat \ {0}
      BY <1>1, <2>1, PageEnds
    <3>2. L!Rows \subseteq Behind(0)
      BY <3>1 DEF L!Rows, Behind
    <3> QED
      BY <2>1, <3>1, <3>2
  <2>2. CASE page[q] # 1
    BY <1>1, <2>2 DEF WalkInv
  <2> QED
    BY <2>1, <2>2
<1>4. /\ at' = [at EXCEPT ![q] = "count"] /\ page' = page
      /\ got' = [got EXCEPT ![q] = Len(rows)]
      /\ missing' = [missing EXCEPT ![q] = before \ listed]
  BY DEF L!Find
<1> HIDE DEF rows, listed, before
<1>5. WalkInv(q)'
  BY <1>1, <1>2, <1>3, <1>4 DEF WalkInv, Behind
<1>6. \A o \in Reader \ {q} : WalkInv(o)'
  BY <1>4 DEF WalkInv, Behind
<1>7. ListTypes'
  BY <1>2, <1>4
<1> QED
  BY <1>5, <1>6, <1>7

LEMMA CountWalks ==
  ASSUME Listed, UNCHANGED newest, NEW q \in Reader, L!Count(q)
  PROVE  Listed'
<1> USE DEF Listed, ListTypes, L!ListTypeOK
<1>1. page[q] \in Nat \ {0} /\ at[q] = "count" /\ got[q] \in 0 .. Limit /\ Len(newest) \in Nat
  BY DEF L!Count
<1>2. PICK total \in L!Totals(q) :
        IF page[q] < L!TotalPages(total)
          THEN at' = [at EXCEPT ![q] = "find"] /\ page' = [page EXCEPT ![q] = @ + 1]
          ELSE at' = [at EXCEPT ![q] = "done"] /\ page' = page
  BY DEF L!Count
<1>3. got' = [got EXCEPT ![q] = 0] /\ missing' = missing
  BY DEF L!Count
<1>4. \A o \in Reader \ {q} : WalkInv(o)'
  BY <1>2, <1>3 DEF WalkInv, Behind
<1>5. CASE page[q] < L!TotalPages(total)
  <2>1. at'[q] = "find" /\ page'[q] = page[q] + 1 /\ page[q] + 1 # 1
    BY <1>1, <1>2, <1>5
  <2>2. (page'[q] - 1) * Limit = page[q] * Limit
    BY <1>1, <2>1, PageEnds
  <2>3. WalkInv(q)'
    BY <1>1, <1>3, <2>1, <2>2 DEF WalkInv, Behind
  <2>4. page[q] + 1 \in Nat \ {0} /\ 0 \in 0 .. Limit
    BY <1>1, LimitAssumption
  <2>5. page' = [page EXCEPT ![q] = page[q] + 1] /\ at' = [at EXCEPT ![q] = "find"]
    BY <1>2, <1>5
  <2>6. page' \in [Reader -> Nat \ {0}]
    BY <2>4, <2>5
  <2>7. ListTypes'
    BY <1>3, <2>4, <2>5, <2>6
  <2> QED
    BY <1>4, <2>3, <2>7
<1>6. CASE ~ (page[q] < L!TotalPages(total))
  <2>1. missing[q] = {}
    <3>1. CASE total = Len(newest)
      <4>1. Len(newest) <= page[q] * Limit /\ page[q] * Limit \in Nat
        BY <1>1, <1>6, <3>1, PagesSuffice, PageEnds
      <4>2. Behind(page[q] * Limit) = {}
        BY <4>1 DEF Behind
      <4> QED
        BY <1>1, <4>2 DEF WalkInv
    <3>2. CASE total # Len(newest)
      <4>1. got[q] < Limit
        BY <1>1, <1>2, <3>2, LimitAssumption DEF L!Totals
      <4> QED
        BY <1>1, <4>1 DEF WalkInv
    <3> QED
      BY <3>1, <3>2
  <2>2. WalkInv(q)'
    BY <1>2, <1>3, <1>6, <2>1 DEF WalkInv
  <2>3. ListTypes'
    BY <1>1, <1>2, <1>3, <1>6, LimitAssumption
  <2> QED
    BY <1>4, <2>2, <2>3
<1> QED
  BY <1>5, <1>6

(* A walk that fails promises nothing.                                     *)
LEMMA AbandonWalks ==
  ASSUME Listed, UNCHANGED newest, NEW S, L!Abandon(S)
  PROVE  Listed'
<1> USE DEF Listed, ListTypes, L!ListTypeOK, L!Abandon
<1>1. ListTypes'
  BY LimitAssumption
<1>2. \A q \in Reader : WalkInv(q)'
  BY DEF WalkInv, Behind
<1> QED
  BY <1>1, <1>2

LEMMA InsertWalks ==
  ASSUME Listed, UNCHANGED list, NEW r \in Request,
         \E i \in 1 .. Len(newest) + 1 - Len(Earlier) : newest' = InsertAt(newest, i, r)
  PROVE  Listed'
<1> USE DEF Listed, ListTypes, L!ListTypeOK, list
<1>1. newest' \in Seq(Listable) /\ \A n \in Nat : Behind(n) \subseteq Behind(n)'
  <2>1. PICK i \in 1 .. Len(newest) + 1 : newest' = InsertAt(newest, i, r)
    BY EarlierAssumption
  <2>0. r \in Listable
    BY DEF Listable
  <2>2. newest' \in Seq(Listable)
    BY <2>0, <2>1, InsertPushes
  <2>3. \A n \in Nat : Behind(n) \subseteq Behind(n)'
    BY <2>0, <2>1, InsertPushes
  <2> QED
    BY <2>2, <2>3
<1>2. ASSUME NEW q \in Reader PROVE WalkInv(q)'
  <2>1. (page[q] - 1) * Limit \in Nat /\ page[q] * Limit \in Nat
    BY PageEnds
  <2>2. /\ Behind((page[q] - 1) * Limit) \subseteq Behind((page[q] - 1) * Limit)'
        /\ Behind(page[q] * Limit) \subseteq Behind(page[q] * Limit)'
    BY <1>1, <2>1
  <2> QED
    BY <2>2 DEF WalkInv
<1> QED
  BY <1>1, <1>2

LEMMA RemoveWalks ==
  ASSUME Listed, NEW i \in DOMAIN newest, newest' = RemoveAt(newest, i), L!RowsLeave
  PROVE  Listed'
<1> USE DEF Listed, ListTypes, L!ListTypeOK, L!RowsLeave
<1>1. newest' \in Seq(Listable)
  BY RemoveIsSeq
<1>2. ListTypes'
  BY <1>1
<1>3. ASSUME NEW q \in Reader PROVE WalkInv(q)'
  <2>1. missing'[q] = {} \/ at[q] \in {"done", "failed"} \/ (at[q] = "find" /\ page[q] = 1)
    BY DEF L!Reading
  <2>2. missing'[q] = {} \/ missing'[q] = missing[q]
    OBVIOUS
  <2> QED
    BY <2>1, <2>2 DEF WalkInv
<1> QED
  BY <1>2, <1>3

LEMMA StepKeepsListed ==
  ASSUME Listed, [Next]_vars
  PROVE  Listed'
<1>1. ASSUME UNCHANGED <<newest, list>> PROVE Listed'
  BY <1>1 DEF list, Listed, ListTypes, L!ListTypeOK, WalkInv, Behind
<1>2. ASSUME NEW r \in Request, Arrive(r) \/ Wrap(r) \/ WrapFails(r) \/ Expire(r)
      PROVE  Listed'
  BY <1>1, <1>2 DEF Arrive, Wrap, WrapFails, Expire
<1>3. ASSUME NEW r \in Request, Run(r) PROVE Listed'
  BY <1>1, <1>3, InsertWalks DEF Run, Record
<1>4. ASSUME NEW c \in Course, PublishCourse(c) PROVE Listed'
  BY <1>1, <1>4 DEF PublishCourse
<1>5. ASSUME NEW c \in Course, RemoveCourse(c) PROVE Listed'
  BY <1>1, <1>5, RemoveWalks DEF RemoveCourse
<1>6. ASSUME NEW q \in Reader, ReadList(q) \/ ReadListFails(q) PROVE Listed'
  BY <1>6, FindWalks, CountWalks, AbandonWalks DEF ReadList, ReadListFails
<1>7. CASE Crash
  BY <1>7, AbandonWalks DEF Crash
<1> QED
  BY <1>1, <1>2, <1>3, <1>4, <1>5, <1>6, <1>7 DEF Next, vars

(***************************************************************************)
(* The types                                                               *)
(***************************************************************************)
(* A request polls fewer than WaitRetries times before it stops waiting.   *)
Polling ==
  /\ polls \in [Request -> 0 .. WaitRetries]
  /\ \A r \in Request :
       /\ pc[r] \in {"idle", "create", "refind"} => polls[r] = 0
       /\ pc[r] = "wait" => polls[r] < WaitRetries

LEMMA InitPolling == Init => Polling
  BY WaitAssumption DEF Init, W!Init, Polling

(* A step that leaves the counters alone, and starts no second wait.       *)
LEMMA NobodyPolls ==
  ASSUME Polling, UNCHANGED polls,
         \A r \in Request :
           \/ pc'[r] = pc[r]
           \/ pc[r] \in {"idle", "create", "refind"}
           \/ pc'[r] \notin {"idle", "create", "refind", "wait"}
  PROVE  Polling'
  BY WaitAssumption DEF Polling

LEMMA StepKeepsPolling ==
  ASSUME Wrapped, Polling, [W!Next]_(W!vars)
  PROVE  Polling'
<1> USE DEF Wrapped, WTypes
<1>1. CASE UNCHANGED W!vars
  BY <1>1, NobodyPolls DEF W!vars
<1>2. ASSUME NEW r \in Request, W!Arrival(r) \/ W!Create(r) \/ W!CreateAmbiguous(r) \/ W!Refind(r)
      PROVE  Polling'
  <2>1. UNCHANGED polls /\ pc[r] \in {"idle", "create", "refind"}
    BY <1>2
    DEF W!Arrival, W!StartWithoutKey, W!RejectLongKey, W!Find, W!Arrive, W!Create, W!CreateAmbiguous,
        W!Refind, W!ResolveExisting
  <2>2. \A o \in Request \ {r} : pc'[o] = pc[o]
    BY <1>2
    DEF W!Arrival, W!StartWithoutKey, W!RejectLongKey, W!Find, W!Arrive, W!Create, W!CreateAmbiguous,
        W!Refind, W!ResolveExisting, W!Go, W!Finish
  <2> QED
    BY <2>1, <2>2, NobodyPolls
<1>3. ASSUME NEW r \in Request, W!Poll(r) PROVE Polling'
  <2>1. /\ pc[r] = "wait" /\ polls[r] \in 0 .. WaitRetries /\ polls[r] < WaitRetries
        /\ polls' = [polls EXCEPT ![r] = @ + 1]
        /\ \A o \in Request \ {r} : pc'[o] = pc[o]
    BY <1>3 DEF Polling, W!Poll, W!Go, W!Finish
  <2>2. \/ pc'[r] \in {"done", "replay"}
        \/ pc'[r] = "wait" /\ polls[r] + 1 < WaitRetries
    BY <1>3 DEF W!Poll, W!Go, W!Finish
  <2>3. polls[r] + 1 \in 0 .. WaitRetries
    BY <2>1, WaitAssumption
  <2> QED
    BY <2>1, <2>2, <2>3 DEF Polling
<1>4. ASSUME NEW r \in Request,
             \/ W!Replay(r) \/ W!RunCreates(r) \/ W!RunConflicts(r) \/ W!RunRejects(r)
             \/ W!SaveCompleted(r) \/ W!DeleteRow(r) \/ W!Expire(r)
             \/ W!CallFails(r) \/ W!RunAmbiguous(r) \/ W!SaveLost(r) \/ W!SaveAmbiguous(r)
      PROVE  Polling'
  <2>1. UNCHANGED polls /\ \A o \in Request \ {r} : pc'[o] = pc[o]
    BY <1>4
    DEF W!Replay, W!RunCreates, W!RunConflicts, W!RunRejects, W!SaveCompleted, W!DeleteRow, W!Expire,
        W!CallFails, W!RunAmbiguous, W!SaveLost, W!SaveAmbiguous, W!ThrowFromRun, W!Go, W!Finish
  <2>2. pc'[r] = pc[r] \/ pc'[r] \in {"done", "save", "delete"}
    BY <1>4
    DEF W!Replay, W!RunCreates, W!RunConflicts, W!RunRejects, W!SaveCompleted, W!DeleteRow, W!Expire,
        W!CallFails, W!RunAmbiguous, W!SaveLost, W!SaveAmbiguous, W!ThrowFromRun, W!Go, W!Finish
  <2> QED
    BY <2>1, <2>2, NobodyPolls
<1>5. CASE W!Crash \/ \E c \in Course : W!Remove(c)
  BY <1>5, NobodyPolls DEF W!Crash, W!Remove
<1> QED
  BY <1>1, <1>2, <1>3, <1>4, <1>5 DEF W!Next, W!Progress, W!CallFault

(***************************************************************************)
(* The theorems                                                            *)
(***************************************************************************)
(* The counters of the polls are below their bound, and what a reader of   *)
(* the list is missing is behind the pages it has read.                    *)
THEOREM PollingAndListed == Spec => [](Polling /\ Listed)
<1>1. Init => Polling /\ Listed
  BY InitPolling, InitListed
<1>2. (Wrapped /\ Linked) /\ (Polling /\ Listed) /\ [Next]_vars => (Polling /\ Listed)'
  BY StepIsWrapped, StepKeepsPolling, StepKeepsListed
<1> QED
  BY <1>1, <1>2, WrappedAndLinked, PTL DEF Spec

(* Every variable of the wrapper, the service and the list keeps its type  *)
(* through whatever interleaves: no request polls more than WaitRetries    *)
(* times (idempotency.service.ts:111-127), and no page is longer than its  *)
(* limit (enrollments.service.ts:71-86).                                   *)
THEOREM ApiTypeCorrect == Spec => []TypeOK
<1>1. Wrapped /\ Linked /\ Polling /\ Listed => TypeOK
  <2> SUFFICES ASSUME Wrapped, Linked, Polling, Listed PROVE TypeOK
    OBVIOUS
  <2>1. W!TypeOK
    BY DEF Wrapped, WTypes, TableTypes, Polling, W!TypeOK
  <2>2. E!TypeOK
    BY DEF Linked, STypes, E!TypeOK, E!Pair, E!Call
  <2>3. newest \in Seq(Request \cup OldRow) /\ L!ListTypeOK
    BY DEF Listed, ListTypes, Listable
  <2> QED
    BY <2>1, <2>2, <2>3 DEF TypeOK
<1> QED
  BY <1>1, WrappedAndLinked, PollingAndListed, PTL

(* A client that has read the list to its end has seen every enrollment    *)
(* that was there all the time, for any limit and any insertions while it  *)
(* reads (enrollments.service.ts:71-86).                                   *)
THEOREM NoStableRowIsMissed == Spec => []StableRowsAreListed
<1>1. Listed => StableRowsAreListed
  BY DEF Listed, WalkInv, StableRowsAreListed, L!StableRowsAreListed
<1> QED
  BY <1>1, PollingAndListed, PTL
=============================================================================
