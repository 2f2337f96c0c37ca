--------------------------- MODULE TransportProofs ---------------------------
(***************************************************************************)
(* Proofs about the transport: what the AsyncTCP task lets in and leaves   *)
(* for the loop, and what is sent to a phone.                              *)
(*                                                                         *)
(* The rate limit of TokenBucket, for every width of the clock and every   *)
(* burst, rate and fraction: what a bucket holds is measured in fractions  *)
(* of a fraction, its level. The ring of AsyncQueue for every capacity.    *)
(* The socket table of Admission, for any set of sockets and any limits.   *)
(* The ledger of Authorization, the waits it tells and the wrong codes it  *)
(* lets through, for any number of guests, clients and buckets.            *)
(*                                                                         *)
(* WsFlow for any depths that fit the tracker and any number of snapshots: *)
(* the tracker follows the library's queue, neither is ever full, and      *)
(* snapshots keep their order and are not lost.                            *)
(***************************************************************************)
EXTENDS TokenBucket, AsyncQueue, Admission, Authorization, WsFlow,
        TLAPS, FiniteSetTheorems, WellFoundedInduction

-----------------------------------------------------------------------------
(* The unsigned clock: a difference of two readings and how it grows. *)

LEMMA WordFacts == Word \in Nat /\ Word > 0 /\ Time = 0 .. Word - 1 /\ 0 \in Time
BY WordAssumption DEF Time

\* A number of the clock's range, or one range away, has its value in it.
LEMMA ModFacts ==
    ASSUME NEW x \in Int
    PROVE  /\ x \in 0 .. Word - 1 => x % Word = x
           /\ x + Word \in 0 .. Word - 1 => x % Word = x + Word
           /\ x = Word => x % Word = 0
           /\ x % Word \in 0 .. Word - 1
BY WordFacts

LEMMA SinceFacts ==
    ASSUME NEW now \in Time, NEW then \in Time
    PROVE  /\ Since(now, then) = IF now >= then THEN now - then ELSE now - then + Word
           /\ Since(now, then) \in 0 .. Word - 1
BY WordFacts, ModFacts DEF Since

\* A reading grows older by the millisecond, until it is as old as the clock can tell.
LEMMA TickFacts ==
    ASSUME NEW then \in Time, clock \in Time, Ticks
    PROVE  /\ clock' \in Time
           /\ Since(clock', then) = IF Since(clock, then) = Word - 1 THEN 0
                                    ELSE Since(clock, then) + 1
<1>1. clock' = IF clock = Word - 1 THEN 0 ELSE clock + 1
  BY WordFacts, ModFacts DEF Ticks
<1>2. clock' \in Time
  BY <1>1, WordFacts
<1>3. Since(clock, then) = IF clock >= then THEN clock - then ELSE clock - then + Word
  BY SinceFacts
<1>4. Since(clock', then) = IF clock' >= then THEN clock' - then ELSE clock' - then + Word
  BY <1>2, SinceFacts
<1> QED
  BY <1>1, <1>2, <1>3, <1>4, WordFacts

-----------------------------------------------------------------------------
(* The rate limit. *)

Level(b) == b.tokens * Den + b.rem
Rate     == Unit * Num
Price    == Unit * Den      \* of a message
Brim     == Cap * Den
Elapsed  == Since(clock, bucket.last)

Counts == [ms : Nat, heard : Nat]

BucketTypeOK ==
    /\ clock \in Time
    /\ bucket \in Bucket
    /\ total \in Counts /\ sinceFull \in Counts

\* What passed since the count began and the bucket has seen pass.
SeenToPass == IF Elapsed <= total.ms THEN total.ms - Elapsed ELSE 0

\* What went out and what is left came from a full bucket and from the time it saw pass.
Spends ==
    /\ total.heard > 0 => Elapsed <= total.ms
    /\ total.heard * Price + Level(bucket) <= Brim + Den - 1 + Rate * SeenToPass

\* ... and since it was last full, nothing was lost.
Saves == sinceFull.heard * Price + Level(bucket) >= Brim + Rate * sinceFull.ms

BucketInv == BucketTypeOK /\ Spends /\ Saves

-----------------------------------------------------------------------------
LEMMA RateFacts ==
    /\ Burst \in Nat /\ Num \in Nat /\ Den \in Nat /\ Unit \in Nat
    /\ Burst > 0 /\ Num > 0 /\ Den > 0 /\ Unit > 0 /\ Den <= Unit /\ MaxAge \in Nat
    /\ Cap \in Nat /\ Rate \in Nat /\ Price \in Nat /\ Brim \in Nat
    /\ Cap >= Unit
<1>1. /\ Burst \in Nat /\ Num \in Nat /\ Den \in Nat /\ Unit \in Nat
      /\ Burst > 0 /\ Num > 0 /\ Den > 0 /\ Unit > 0 /\ Den <= Unit /\ MaxAge \in Nat
  BY RateAssumption
<1>2. Cap \in Nat /\ Rate \in Nat /\ Price \in Nat /\ Brim \in Nat
  BY <1>1 DEF Cap, Rate, Price, Brim
<1>3. Cap >= Unit
  BY <1>1 DEF Cap
<1> QED
  BY <1>1, <1>2, <1>3

LEMMA Division ==
    ASSUME NEW x \in Nat
    PROVE  /\ x \div Den \in Nat /\ x % Den \in 0 .. Den - 1
           /\ ((x \div Den) * Den) + (x % Den) = x
BY RateFacts

\* A refill adds what the time earned; what does not fit is lost.
LEMMA RefillFacts ==
    ASSUME NEW b \in Bucket, NEW now \in Time
    PROVE  LET e == Since(now, b.last)
               f == Refilled(b, now)
           IN /\ f \in Bucket /\ f.last = now
              /\ e \in Nat /\ Uncapped(b, e) \in Nat
              /\ Uncapped(b, e) <= Cap => Level(f) = Level(b) + Rate * e
              /\ Level(f) <= Level(b) + Rate * e
              /\ Uncapped(b, e) > Cap => f.tokens = Cap
<1> DEFINE e == Since(now, b.last)
           x == Earned(b, e)
           q == x \div Den
           r == x % Den
           f == Refilled(b, now)
<1>1. b.tokens \in 0 .. Cap /\ b.rem \in 0 .. Den - 1 /\ b.last \in Time
  BY DEF Bucket
<1>2. e \in Nat
  <2>1. Since(now, b.last) \in 0 .. Word - 1
    BY <1>1, SinceFacts
  <2> QED
    BY <2>1, WordFacts
<1>3. x \in Nat /\ x = Rate * e + b.rem
  BY <1>1, <1>2, RateFacts DEF Earned, Rate
<1>4. q \in Nat /\ r \in 0 .. Den - 1 /\ q * Den + r = x
  BY <1>3, Division
<1>5. f = [tokens |-> IF b.tokens + q > Cap THEN Cap ELSE b.tokens + q, rem |-> r, last |-> now]
  BY DEF Refilled, Uncapped
<1>6. Uncapped(b, e) = b.tokens + q /\ Uncapped(b, e) \in Nat
  BY <1>1, <1>4, RateFacts DEF Uncapped
<1> HIDE DEF x, q, r, f, e
<1>7. f \in Bucket /\ f.last = now
  BY <1>1, <1>4, <1>5, RateFacts DEF Bucket
<1>8. ASSUME b.tokens + q <= Cap
      PROVE  Level(f) = Level(b) + Rate * e
  <2>1. f.tokens = b.tokens + q /\ f.rem = r
    BY <1>1, <1>4, <1>5, <1>8, RateFacts
  <2>2. (b.tokens + q) * Den + r = b.tokens * Den + (q * Den + r)
    BY <1>1, <1>4, RateFacts
  <2>3. Rate * e \in Nat
    BY <1>2, RateFacts
  <2>4. b.tokens * Den \in Nat
    BY <1>1, RateFacts
  <2> QED
    BY <2>1, <2>2, <2>3, <2>4, <1>1, <1>3, <1>4 DEF Level
<1>9. ASSUME b.tokens + q > Cap
      PROVE  Level(f) <= Level(b) + Rate * e /\ f.tokens = Cap
  <2>1. f.tokens = Cap /\ f.rem = r
    BY <1>1, <1>4, <1>5, <1>9, RateFacts
  <2>2. Cap * Den <= (b.tokens + q) * Den
    BY <1>1, <1>4, <1>9, RateFacts
  <2>3. (b.tokens + q) * Den + r = b.tokens * Den + (q * Den + r)
    BY <1>1, <1>4, RateFacts
  <2>4. Rate * e \in Nat /\ b.tokens * Den \in Nat /\ Cap * Den \in Nat
        /\ (b.tokens + q) * Den \in Nat
    BY <1>1, <1>2, <1>4, RateFacts
  <2> QED
    BY <2>1, <2>2, <2>3, <2>4, <1>1, <1>3, <1>4 DEF Level
<1>10. Level(f) \in Int /\ Level(b) + Rate * e \in Int
  BY <1>1, <1>2, <1>7, RateFacts DEF Level, Bucket
<1> QED
  BY <1>1, <1>2, <1>4, <1>6, <1>7, <1>8, <1>9, <1>10, RateFacts DEF e, f

-----------------------------------------------------------------------------
LEMMA BucketBegins ==
    ASSUME BucketInit PROVE BucketInv
<1> USE DEF BucketInit
<1>1. bucket \in Bucket
  BY RateFacts DEF Bucket
<1>2. BucketTypeOK
  BY <1>1 DEF BucketTypeOK, Counts
<1>3. Elapsed = 0
  BY SinceFacts, WordFacts DEF Elapsed
<1>4. Level(bucket) = Brim
  BY RateFacts DEF Level, Brim
<1>5. total.heard * Price = 0 /\ sinceFull.heard * Price = 0 /\ Rate * sinceFull.ms = 0
  BY RateFacts
<1>6. SeenToPass = 0
  BY <1>3 DEF SeenToPass
<1>7. Rate * 0 = 0
  BY RateFacts
<1>8. Spends
  BY <1>3, <1>4, <1>5, <1>6, <1>7, RateFacts DEF Spends
<1>9. Saves
  BY <1>4, <1>5, RateFacts DEF Saves
<1> QED
  BY <1>2, <1>8, <1>9 DEF BucketInv

LEMMA Ages ==
    ASSUME BucketTypeOK PROVE Elapsed \in Nat /\ SeenToPass \in Nat
<1>1. Elapsed \in 0 .. Word - 1
  BY SinceFacts DEF Elapsed, BucketTypeOK, Bucket
<1>2. Elapsed \in Nat
  BY <1>1, WordFacts
<1> QED
  BY <1>2 DEF SeenToPass, BucketTypeOK, Counts

LEMMA Watching ==
    ASSUME BucketInv, Watch PROVE BucketInv'
<1> USE DEF Watch
<1>1. BucketTypeOK'
  BY DEF BucketInv, BucketTypeOK, Counts
<1>2. Elapsed' \in Nat /\ total'.heard = 0 /\ total'.ms = 0
  BY Ages DEF BucketInv, Elapsed
<1>3. SeenToPass' = 0
  <2>1. SeenToPass' = IF Elapsed' <= total'.ms THEN total'.ms - Elapsed' ELSE 0
    BY DEF SeenToPass
  <2>2. SeenToPass' = IF Elapsed' <= 0 THEN 0 - Elapsed' ELSE 0
    BY <2>1, <1>2
  <2>3. Elapsed' \in Nat
    BY <1>2
  <2>4. \A a \in Nat : (IF a <= 0 THEN 0 - a ELSE 0) = 0
    OBVIOUS
  <2> QED
    BY <2>2, <2>3, <2>4
<1>4. total'.heard * Price = 0 /\ Rate * 0 = 0
  BY <1>2, RateFacts
<1>5. Level(bucket) <= Brim + Den - 1
  <2>1. bucket.tokens \in 0 .. Cap /\ bucket.rem \in 0 .. Den - 1
    BY DEF BucketInv, BucketTypeOK, Bucket
  <2>2. bucket.tokens * Den <= Cap * Den /\ bucket.tokens * Den \in Nat
    BY <2>1, RateFacts
  <2> QED
    BY <2>1, <2>2, RateFacts DEF Level, Brim
<1>6. Level(bucket) \in Int
  BY RateFacts DEF Level, BucketInv, BucketTypeOK, Bucket
<1>7. Spends'
  BY <1>2, <1>3, <1>4, <1>5, <1>6, RateFacts DEF Spends, Level
<1>8. Saves'
  BY DEF BucketInv, Saves
<1> QED
  BY <1>1, <1>7, <1>8 DEF BucketInv

LEMMA BucketWaits ==
    ASSUME BucketInv, BucketElapse PROVE BucketInv'
<1> USE DEF BucketElapse
<1>1. /\ clock \in Time /\ Ticks /\ bucket' = bucket /\ sinceFull' = sinceFull
      /\ bucket \in Bucket /\ bucket.last \in Time /\ total \in Counts
      /\ total'.ms = total.ms + 1 /\ total'.heard = total.heard /\ total' \in Counts
      /\ total.ms \in Nat
  BY DEF BucketInv, BucketTypeOK, Bucket, Counts
<1>2. clock' \in Time /\ Elapsed' = IF Elapsed = Word - 1 THEN 0 ELSE Elapsed + 1
  BY <1>1, TickFacts DEF Elapsed
<1>3. BucketTypeOK'
  BY <1>1, <1>2 DEF BucketInv, BucketTypeOK
<1>4. Elapsed \in Nat /\ SeenToPass \in Nat
  BY Ages DEF BucketInv
<1>5. SeenToPass' >= SeenToPass /\ SeenToPass' \in Nat
  BY <1>1, <1>2, <1>4 DEF SeenToPass
<1>6. Rate * SeenToPass' >= Rate * SeenToPass
  BY <1>4, <1>5, RateFacts
<1>7. total.heard > 0 => Elapsed' <= total'.ms
  BY <1>1, <1>2, <1>4 DEF BucketInv, Spends
<1>8. Level(bucket) \in Int /\ total.heard * Price \in Int
      /\ Rate * SeenToPass \in Int /\ Rate * SeenToPass' \in Int
  BY <1>1, <1>4, <1>5, RateFacts DEF Level, Bucket, Counts
<1>9. Spends'
  <2>1. total.heard * Price + Level(bucket) <= Brim + Den - 1 + Rate * SeenToPass
    BY DEF BucketInv, Spends
  <2>2. total.heard * Price + Level(bucket) <= Brim + Den - 1 + Rate * SeenToPass'
    BY <2>1, <1>6, <1>8, RateFacts
  <2> QED
    BY <2>2, <1>1, <1>7 DEF Spends, Level
<1>10. Saves'
  BY DEF BucketInv, Saves
<1> QED
  BY <1>3, <1>9, <1>10 DEF BucketInv

\* What a message does to the bucket: it earns, it may spill, and it may be paid.
LEMMA InboundFacts ==
    ASSUME BucketTypeOK, InboundAllow
    PROVE  \E heard \in {0, 1} :
              /\ bucket' \in Bucket /\ bucket'.last = clock
              /\ total' = [total EXCEPT !.heard = @ + heard]
              /\ Level(bucket') + heard * Price <= Level(bucket) + Rate * Elapsed
              /\ Level(bucket') + heard * Price <= Brim + Den - 1
              /\ \/ /\ Level(bucket') + heard * Price = Level(bucket) + Rate * Elapsed
                    /\ sinceFull' = [ms |-> sinceFull.ms + Elapsed,
                                     heard |-> sinceFull.heard + heard]
                 \/ /\ Level(bucket') + heard * Price >= Brim
                    /\ sinceFull' = [ms |-> 0, heard |-> heard]
              /\ heard = 0 => bucket'.tokens < Unit
<1> DEFINE f     == Refilled(bucket, clock)
           heard == IF f.tokens >= Unit THEN 1 ELSE 0
           paid  == IF f.tokens >= Unit THEN f.tokens - Unit ELSE f.tokens
<1>1. bucket \in Bucket /\ clock \in Time /\ total \in Counts
  BY DEF BucketTypeOK
<1>2. /\ f \in Bucket /\ f.last = clock /\ Elapsed \in Nat
      /\ Uncapped(bucket, Elapsed) \in Nat
      /\ Level(f) <= Level(bucket) + Rate * Elapsed
      /\ Uncapped(bucket, Elapsed) <= Cap => Level(f) = Level(bucket) + Rate * Elapsed
      /\ Uncapped(bucket, Elapsed) > Cap => f.tokens = Cap
  BY <1>1, RefillFacts DEF Elapsed
<1>3. /\ bucket' = [f EXCEPT !.tokens = paid]
      /\ total' = [total EXCEPT !.heard = @ + heard]
      /\ sinceFull' = IF Uncapped(bucket, Elapsed) > Cap THEN [ms |-> 0, heard |-> heard]
                      ELSE [ms |-> sinceFull.ms + Elapsed, heard |-> sinceFull.heard + heard]
  BY DEF InboundAllow, Allows, Elapsed
<1> HIDE DEF f
<1>4. /\ f.tokens \in 0 .. Cap /\ f.rem \in 0 .. Den - 1 /\ f.last = clock
      /\ f = [tokens |-> f.tokens, rem |-> f.rem, last |-> f.last]
  <2>1. f \in [tokens : 0 .. Cap, rem : 0 .. Den - 1, last : Time]
    BY <1>2 DEF Bucket
  <2>2. f = [tokens |-> f.tokens, rem |-> f.rem, last |-> f.last]
    BY <2>1
  <2> QED
    BY <2>1, <2>2, <1>2
<1>5. heard \in {0, 1} /\ paid \in 0 .. Cap /\ paid = f.tokens - heard * Unit
      /\ (heard = 0 => paid < Unit)
  BY <1>4, RateFacts
<1> HIDE DEF heard, paid
<1>6. bucket'.tokens = paid /\ bucket'.rem = f.rem /\ bucket'.last = clock /\ bucket' \in Bucket
  <2>1. bucket' = [tokens |-> paid, rem |-> f.rem, last |-> clock]
    BY <1>3, <1>4
  <2> QED
    BY <2>1, <1>1, <1>4, <1>5 DEF Bucket
<1>7. Level(bucket') + heard * Price = Level(f)
  <2>1. Level(bucket') = paid * Den + f.rem /\ Level(f) = f.tokens * Den + f.rem
    BY <1>6 DEF Level
  <2>2. paid * Den \in Int /\ f.tokens * Den \in Int /\ f.rem \in Int /\ heard * Price \in Int
    BY <1>4, <1>5, RateFacts
  <2>3. paid * Den + heard * Price = f.tokens * Den
    <3>1. CASE heard = 0
      BY <3>1, <1>4, <1>5, RateFacts
    <3>2. CASE heard = 1
      BY <3>2, <1>4, <1>5, RateFacts DEF Price
    <3> QED
      BY <3>1, <3>2, <1>5
  <2> QED
    BY <2>1, <2>2, <2>3
<1>8. Level(f) <= Brim + Den - 1
  <2>1. f.tokens * Den <= Cap * Den /\ f.tokens * Den \in Nat
    BY <1>4, RateFacts
  <2> QED
    BY <2>1, <1>4, RateFacts DEF Level, Brim
<1>9. \/ /\ Level(f) = Level(bucket) + Rate * Elapsed
         /\ sinceFull' = [ms |-> sinceFull.ms + Elapsed, heard |-> sinceFull.heard + heard]
      \/ Level(f) >= Brim /\ sinceFull' = [ms |-> 0, heard |-> heard]
  <2>1. CASE Uncapped(bucket, Elapsed) > Cap
    <3>1. f.tokens = Cap
      BY <2>1, <1>2
    <3>2. Level(f) = Cap * Den + f.rem
      BY <3>1 DEF Level
    <3>3. Level(f) >= Brim
      BY <3>2, <1>4, RateFacts DEF Brim
    <3> QED
      BY <2>1, <3>3, <1>3
  <2>2. CASE ~(Uncapped(bucket, Elapsed) > Cap)
    <3>1. Uncapped(bucket, Elapsed) <= Cap
      BY <2>2, <1>2, RateFacts
    <3> QED
      BY <2>2, <3>1, <1>2, <1>3
  <2> QED
    BY <2>1, <2>2
<1>10. heard = 0 => bucket'.tokens < Unit
  BY <1>5, <1>6
<1> QED
  BY <1>2, <1>3, <1>5, <1>6, <1>7, <1>8, <1>9, <1>10

LEMMA Arriving ==
    ASSUME BucketInv, InboundAllow PROVE BucketInv'
<1>1. BucketTypeOK /\ Spends /\ Saves
  BY DEF BucketInv
<1>2. PICK heard \in {0, 1} :
              /\ bucket' \in Bucket /\ bucket'.last = clock
              /\ total' = [total EXCEPT !.heard = @ + heard]
              /\ Level(bucket') + heard * Price <= Level(bucket) + Rate * Elapsed
              /\ Level(bucket') + heard * Price <= Brim + Den - 1
              /\ \/ /\ Level(bucket') + heard * Price = Level(bucket) + Rate * Elapsed
                    /\ sinceFull' = [ms |-> sinceFull.ms + Elapsed,
                                     heard |-> sinceFull.heard + heard]
                 \/ /\ Level(bucket') + heard * Price >= Brim
                    /\ sinceFull' = [ms |-> 0, heard |-> heard]
              /\ heard = 0 => bucket'.tokens < Unit
  BY <1>1, InboundFacts
<1>3. clock' = clock /\ clock \in Time
  BY <1>1 DEF InboundAllow, BucketTypeOK
<1>4. Elapsed \in Nat /\ SeenToPass \in Nat
  BY <1>1, Ages
<1>5. Elapsed' = 0
  <2>1. Since(clock, clock) = 0
    BY <1>3, SinceFacts, WordFacts
  <2>2. Elapsed' = Since(clock', bucket'.last)
    BY DEF Elapsed
  <2> QED
    BY <2>1, <2>2, <1>2, <1>3
<1>6. /\ total.heard \in Nat /\ total.ms \in Nat
      /\ sinceFull.heard \in Nat /\ sinceFull.ms \in Nat
      /\ total'.heard = total.heard + heard /\ total'.ms = total.ms
      /\ total' \in Counts /\ sinceFull' \in Counts
  BY <1>1, <1>2, <1>4 DEF BucketTypeOK, Counts
<1>7. BucketTypeOK'
  BY <1>2, <1>3, <1>6 DEF BucketTypeOK
<1>8. SeenToPass' = total.ms
  BY <1>5, <1>6 DEF SeenToPass
<1>9. /\ bucket'.tokens \in 0 .. Cap /\ bucket'.rem \in 0 .. Den - 1
      /\ Level(bucket) \in Int /\ Level(bucket') \in Int /\ Level(bucket)' = Level(bucket')
  BY <1>1, <1>2, RateFacts DEF BucketTypeOK, Bucket, Level
<1>10. (total.heard + heard) * Price = total.heard * Price + heard * Price
       /\ (sinceFull.heard + heard) * Price = sinceFull.heard * Price + heard * Price
       /\ total.heard * Price \in Nat /\ heard * Price \in Nat /\ sinceFull.heard * Price \in Nat
  BY <1>6, RateFacts
<1>11. Rate * Elapsed \in Nat /\ Rate * total.ms \in Nat /\ Rate * SeenToPass \in Nat
       /\ Rate * sinceFull.ms \in Nat
  BY <1>4, <1>6, RateFacts
<1>12. Spends'
  <2>1. total'.heard > 0 => Elapsed' <= total'.ms
    BY <1>5, <1>6
  <2>2. SUFFICES (total.heard + heard) * Price + Level(bucket') <= Brim + Den - 1 + Rate * total.ms
    BY <2>1, <1>6, <1>8, <1>9 DEF Spends
  <2>3. CASE Elapsed <= total.ms
    <3>1. total.ms = SeenToPass + Elapsed
      BY <2>3, <1>4, <1>6 DEF SeenToPass
    <3>2. Rate * total.ms = Rate * SeenToPass + Rate * Elapsed
      BY <3>1, <1>4, RateFacts
    <3>3. total.heard * Price + Level(bucket) <= Brim + Den - 1 + Rate * SeenToPass
      BY <1>1 DEF Spends
    <3> QED
      BY <3>2, <3>3, <1>2, <1>9, <1>10, <1>11, RateFacts
  <2>4. CASE ~(Elapsed <= total.ms)
    <3>1. total.heard = 0 /\ SeenToPass = 0
      BY <2>4, <1>1, <1>6 DEF Spends, SeenToPass
    <3>2. Level(bucket') + heard * Price <= Brim + Den - 1
      BY <1>2
    <3> QED
      BY <3>1, <3>2, <1>9, <1>10, <1>11, RateFacts
  <2> QED
    BY <2>3, <2>4
<1>13. Saves'
  <2>1. sinceFull.heard * Price + Level(bucket) >= Brim + Rate * sinceFull.ms
    BY <1>1 DEF Saves
  <2>2. CASE /\ Level(bucket') + heard * Price = Level(bucket) + Rate * Elapsed
             /\ sinceFull' = [ms |-> sinceFull.ms + Elapsed, heard |-> sinceFull.heard + heard]
    <3>1. Rate * (sinceFull.ms + Elapsed) = Rate * sinceFull.ms + Rate * Elapsed
      BY <1>4, <1>6, RateFacts
    <3>2. (sinceFull.heard + heard) * Price + Level(bucket')
             >= Brim + Rate * (sinceFull.ms + Elapsed)
      BY <2>1, <2>2, <3>1, <1>9, <1>10, <1>11, RateFacts
    <3> QED
      BY <2>2, <3>2, <1>9 DEF Saves
  <2>3. CASE /\ Level(bucket') + heard * Price >= Brim
             /\ sinceFull' = [ms |-> 0, heard |-> heard]
    <3>1. Rate * 0 = 0
      BY RateFacts
    <3> QED
      BY <2>3, <3>1, <1>9, <1>10, RateFacts DEF Saves
  <2> QED
    BY <1>2, <2>2, <2>3
<1> QED
  BY <1>7, <1>12, <1>13 DEF BucketInv

LEMMA Resting ==
    ASSUME BucketInv, UNCHANGED <<clock, bucketVars>> PROVE BucketInv'
BY DEF BucketInv, BucketTypeOK, Spends, Saves, SeenToPass, Elapsed, Level, bucketVars

THEOREM BucketInvariant == BucketSpec => []BucketInv
<1>1. BucketInit => BucketInv
  BY BucketBegins
<1>2. BucketInv /\ [BucketNext]_<<clock, bucketVars>> => BucketInv'
  BY Arriving, BucketWaits, Watching, Resting DEF BucketNext
<1> QED
  BY <1>1, <1>2, PTL DEF BucketSpec

-----------------------------------------------------------------------------
\* Less than one fraction is too little for another of Unit fractions.
LEMMA WholeUnits ==
    ASSUME NEW x \in Int, NEW y \in Int, Unit * x <= Unit * y + (Unit - 1)
    PROVE  x <= y
<1>1. SUFFICES ASSUME x >= y + 1 PROVE FALSE
  OBVIOUS
<1>2. Unit * x >= Unit * (y + 1)
  BY <1>1, RateFacts
<1>3. Unit * (y + 1) = Unit * y + Unit /\ Unit * x \in Int /\ Unit * y \in Int
  BY RateFacts
<1> QED
  BY <1>2, <1>3, RateFacts

LEMMA RateFollows ==
    ASSUME BucketInv PROVE RateKept
<1>1. /\ total.heard \in Nat /\ total.ms \in Nat
      /\ bucket.tokens \in Nat /\ bucket.rem \in Nat
  BY RateFacts DEF BucketInv, BucketTypeOK, Counts, Bucket
<1>2. SeenToPass \in Nat /\ SeenToPass <= total.ms
  BY <1>1, Ages DEF BucketInv, SeenToPass
<1>3. total.heard * Price + Level(bucket) <= Brim + Den - 1 + Rate * SeenToPass
  BY DEF BucketInv, Spends
<1>4. Level(bucket) >= 0 /\ Level(bucket) \in Int
  BY <1>1, RateFacts DEF Level
<1>5. Rate * SeenToPass <= Rate * total.ms /\ Rate * SeenToPass \in Int /\ Rate * total.ms \in Int
  BY <1>1, <1>2, RateFacts
<1>6. total.heard * Price <= Brim + Rate * total.ms + (Unit - 1)
  BY <1>1, <1>3, <1>4, <1>5, RateFacts
<1> DEFINE x == total.heard * Den
           y == Burst * Den + Num * total.ms
<1>7. x \in Int /\ y \in Int
  BY <1>1, RateFacts
<1>8. total.heard * Price = Unit * x
  BY <1>1, RateFacts DEF Price
<1>9. Brim + Rate * total.ms = Unit * y
  BY <1>1, RateFacts DEF Brim, Cap, Rate
<1>10. Unit * x <= Unit * y + (Unit - 1)
  BY <1>6, <1>8, <1>9
<1> HIDE DEF x, y
<1>11. x <= y
  BY <1>7, <1>10, WholeUnits
<1> QED
  BY <1>11 DEF RateKept, x, y

\* From any moment on no more messages pass than the burst and the rate allow (haInboundAllow).
THEOREM RateIsKept == BucketSpec => []RateKept
BY BucketInvariant, RateFollows, PTL

LEMMA PaceFollows ==
    ASSUME BucketInv, BucketInv', InboundAllow, total' = total
    PROVE  (sinceFull'.heard + 1) * Den > Burst * Den + Num * sinceFull'.ms
<1>1. PICK heard \in {0, 1} :
              /\ bucket' \in Bucket
              /\ total' = [total EXCEPT !.heard = @ + heard]
              /\ heard = 0 => bucket'.tokens < Unit
  BY InboundFacts DEF BucketInv
<1>2. heard = 0
  <2>1. total.heard \in Nat /\ total' = [ms |-> total.ms, heard |-> total.heard + heard]
    BY <1>1 DEF BucketInv, BucketTypeOK, Counts
  <2>2. total'.heard = total.heard + heard
    BY <2>1
  <2> QED
    BY <2>1, <2>2, <1>1
<1>3. bucket'.tokens \in 0 .. Unit - 1 /\ bucket'.rem \in 0 .. Den - 1
  BY <1>1, <1>2, RateFacts DEF Bucket
<1>4. Level(bucket') <= Price - 1 /\ Level(bucket') \in Int
  <2>1. bucket'.tokens * Den <= (Unit - 1) * Den /\ bucket'.tokens * Den \in Int
    BY <1>3, RateFacts
  <2>2. (Unit - 1) * Den = Unit * Den - Den
    BY RateFacts
  <2> QED
    BY <2>1, <2>2, <1>3, RateFacts DEF Level, Price
<1> DEFINE h == sinceFull'.heard
           t == sinceFull'.ms
<1>5. h \in Nat /\ t \in Nat
  BY DEF BucketInv, BucketTypeOK, Counts
<1>6. h * Price + Level(bucket') >= Brim + Rate * t
  BY DEF BucketInv, Saves, Level
<1> HIDE DEF h, t
<1> DEFINE x == Burst * Den + Num * t
           y == (h + 1) * Den
<1>7. x \in Int /\ y \in Int /\ h * Price \in Int /\ Rate * t \in Int
  BY <1>5, RateFacts
<1>8. Unit * x = Brim + Rate * t
  BY <1>5, RateFacts DEF Brim, Cap, Rate
<1>9. Unit * y = h * Price + Price
  BY <1>5, RateFacts DEF Price
<1> HIDE DEF x, y
<1>10. Unit * x <= Unit * y - 1
  BY <1>4, <1>6, <1>7, <1>8, <1>9, RateFacts
<1>11. x < y
  <2>1. SUFFICES ASSUME x >= y PROVE FALSE
    BY <1>7
  <2>2. Unit * x >= Unit * y /\ Unit * x \in Int /\ Unit * y \in Int
    BY <2>1, <1>7, RateFacts
  <2> QED
    BY <2>2, <1>10
<1> QED
  BY <1>7, <1>11 DEF x, y, h, t

\* Who keeps to the rate is heard: a message is refused only when the messages since the
\* bucket was full, with this one, exceed the burst and the rate (haInboundAllow).
THEOREM PaceIsHeard == BucketSpec => PaceHeard
<1>1. BucketInv /\ BucketInv' /\ [BucketNext]_<<clock, bucketVars>>
      => [InboundAllow /\ total' = total =>
             (sinceFull'.heard + 1) * Den > Burst * Den + Num * sinceFull'.ms]_<<clock, bucketVars>>
  BY PaceFollows
<1> QED
  BY <1>1, BucketInvariant, PTL DEF BucketSpec, PaceHeard

-----------------------------------------------------------------------------
(* The queue of sounds. *)

Sounds == Request \cup {Unset}

LEMMA Wraps ==
    ASSUME NEW x \in 0 .. 2 * Capacity - 1
    PROVE  x % Capacity = IF x < Capacity THEN x ELSE x - Capacity
BY QueueAssumption

LEMMA SumWraps ==
    ASSUME NEW a \in 0 .. Capacity - 1, NEW b \in 0 .. Capacity
    PROVE  (a + b) % Capacity = IF a + b < Capacity THEN a + b ELSE a + b - Capacity
<1>1. a + b \in 0 .. 2 * Capacity - 1
  BY QueueAssumption
<1>2. PICK x \in 0 .. 2 * Capacity - 1 : x = a + b
  BY <1>1
<1>3. x % Capacity = IF x < Capacity THEN x ELSE x - Capacity
  BY <1>2, Wraps
<1> QED
  BY <1>2, <1>3, QueueAssumption

\* The queue read off the ring, without the remainders.
Unrolled ==
    /\ Queued \in Seq(Sounds) /\ Len(Queued) = count
    /\ \A i \in 1 .. count :
          Queued[i] = items[IF head + i - 1 < Capacity THEN head + i - 1
                            ELSE head + i - 1 - Capacity]
    /\ tail = IF head + count < Capacity THEN head + count ELSE head + count - Capacity

LEMMA QueueFacts == RingOK => Unrolled
<1> SUFFICES ASSUME RingOK PROVE Unrolled
  OBVIOUS
<1>1. /\ head \in 0 .. Capacity - 1 /\ count \in 0 .. Capacity /\ count \in Nat
      /\ Capacity \in Nat /\ Capacity > 0 /\ tail = (head + count) % Capacity
      /\ items \in [0 .. Capacity - 1 -> Sounds]
  BY QueueAssumption DEF RingOK, Sounds
<1>2. \A i \in 1 .. count :
         (head + i - 1) % Capacity = IF head + i - 1 < Capacity THEN head + i - 1
                                     ELSE head + i - 1 - Capacity
  BY <1>1, Wraps
<1>3. \A i \in 1 .. count : items[(head + i - 1) % Capacity] \in Sounds
  BY <1>1, <1>2
<1>4. Queued \in [1 .. count -> Sounds]
  BY <1>3 DEF Queued
<1>5. Queued \in Seq(Sounds) /\ Len(Queued) = count
  BY <1>1, <1>4
<1>6. tail = IF head + count < Capacity THEN head + count ELSE head + count - Capacity
  BY <1>1, Wraps
<1> QED
  BY <1>2, <1>5, <1>6 DEF Queued, Unrolled

LEMMA RingBegins ==
    ASSUME QueueInit PROVE RingOK /\ Fifo!FifoInit
<1>1. Capacity \in Nat /\ Capacity > 0 /\ MaxDropped \in Nat
  BY QueueAssumption
<1>2. (0 + 0) % Capacity = 0
  BY <1>1, Wraps
<1>3. RingOK
  BY <1>1, <1>2 DEF QueueInit, RingOK
<1>4. Queued \in Seq(Sounds) /\ Len(Queued) = 0
  BY <1>3, QueueFacts DEF QueueInit, Unrolled
<1>5. Queued = <<>>
  BY <1>4
<1> QED
  BY <1>3, <1>5 DEF QueueInit, Fifo!FifoInit

LEMMA Pushing ==
    ASSUME RingOK, NEW v \in Request, Push(v)
    PROVE  RingOK' /\ Fifo!FifoNext
<1>1. /\ head \in 0 .. Capacity - 1 /\ tail \in 0 .. Capacity - 1
      /\ count \in 0 .. Capacity /\ dropped \in 0 .. MaxDropped
      /\ Capacity \in Nat /\ Capacity > 0 /\ MaxDropped \in Nat
      /\ items \in [0 .. Capacity - 1 -> Sounds] /\ v \in Sounds
      /\ tail = (head + count) % Capacity
  BY QueueAssumption DEF RingOK, Sounds
<1>2. /\ Queued \in Seq(Sounds) /\ Len(Queued) = count
      /\ \A i \in 1 .. count :
            Queued[i] = items[IF head + i - 1 < Capacity THEN head + i - 1
                              ELSE head + i - 1 - Capacity]
      /\ tail = IF head + count < Capacity THEN head + count ELSE head + count - Capacity
  BY QueueFacts DEF Unrolled
<1>3. CASE count = Capacity
  <2>1. /\ dropped' = IF dropped # MaxDropped THEN dropped + 1 ELSE dropped
        /\ items' = items /\ head' = head /\ tail' = tail /\ count' = count
    BY <1>3 DEF Push
  <2>2. RingOK'
    BY <2>1, <1>1 DEF RingOK, Sounds
  <2>3. Queued' = Queued
    BY <2>1 DEF Queued
  <2>4. Fifo!Refuse
    BY <2>1, <2>3, <1>1, <1>2, <1>3 DEF Fifo!Refuse
  <2> QED
    BY <2>2, <2>4 DEF Fifo!FifoNext
<1>4. CASE count # Capacity
  <2>1. /\ items' = [items EXCEPT ![tail] = v]
        /\ tail' = (tail + 1) % Capacity /\ count' = count + 1
        /\ head' = head /\ dropped' = dropped
    BY <1>4 DEF Push
  <2>2. tail' = IF tail + 1 < Capacity THEN tail + 1 ELSE tail + 1 - Capacity
    BY <2>1, <1>1, Wraps
  <2>3. (head + (count + 1)) % Capacity
           = IF head + (count + 1) < Capacity THEN head + (count + 1)
             ELSE head + (count + 1) - Capacity
    <3>1. count + 1 \in 0 .. Capacity
      BY <1>1, <1>4
    <3> QED
      BY <3>1, <1>1, SumWraps
  <2>4. tail' = (head' + count') % Capacity
    BY <2>1, <2>2, <2>3, <1>1, <1>2, <1>4
  <2>5. items' \in [0 .. Capacity - 1 -> Sounds]
    BY <2>1, <1>1
  <2>6. tail' \in 0 .. Capacity - 1 /\ count' \in 0 .. Capacity
    BY <2>1, <2>2, <1>1, <1>4
  <2>7. RingOK'
    BY <2>1, <2>4, <2>5, <2>6, <1>1 DEF RingOK, Sounds
  <2>8. /\ Queued' \in Seq(Sounds) /\ Len(Queued') = count'
        /\ \A i \in 1 .. count' :
              Queued'[i] = items'[IF head' + i - 1 < Capacity THEN head' + i - 1
                                  ELSE head' + i - 1 - Capacity]
    <3>1. Unrolled'
      BY <2>7, QueueFacts, PTL
    <3> QED
      BY <3>1 DEF Unrolled
  <2>9. ASSUME NEW i \in 1 .. count + 1
        PROVE  Queued'[i] = Append(Queued, v)[i]
    <3> DEFINE j == IF head + i - 1 < Capacity THEN head + i - 1 ELSE head + i - 1 - Capacity
    <3>1. Queued'[i] = items'[j]
      BY <2>1, <2>8
    <3>2. CASE i = count + 1
      <4>1. j = tail
        BY <3>2, <1>1, <1>2
      <4>2. items'[tail] = v
        BY <2>1, <1>1
      <4>3. Append(Queued, v)[i] = v
        BY <3>2, <1>1, <1>2
      <4> QED
        BY <3>1, <4>1, <4>2, <4>3
    <3>3. CASE i \in 1 .. count
      <4>1. j # tail /\ j \in 0 .. Capacity - 1
        BY <3>3, <1>1, <1>2, <1>4
      <4>2. items'[j] = items[j]
        BY <4>1, <2>1, <1>1
      <4>3. Append(Queued, v)[i] = Queued[i]
        BY <3>3, <1>1, <1>2
      <4> QED
        BY <3>1, <3>3, <4>2, <4>3, <1>2
    <3>4. i = count + 1 \/ i \in 1 .. count
      BY <2>9, <1>1
    <3> QED
      BY <3>2, <3>3, <3>4
  <2>10. Append(Queued, v) \in Seq(Sounds) /\ Len(Append(Queued, v)) = count + 1
    BY <1>1, <1>2
  <2>11. Queued' = Append(Queued, v)
    BY <2>1, <2>8, <2>9, <2>10
  <2>12. Fifo!Put(v)
    BY <2>1, <2>11, <1>1, <1>2, <1>4 DEF Fifo!Put
  <2> QED
    BY <2>7, <2>12 DEF Fifo!FifoNext
<1> QED
  BY <1>3, <1>4

LEMMA Popping ==
    ASSUME RingOK, Pop
    PROVE  RingOK' /\ Fifo!FifoNext
<1>1. /\ head \in 0 .. Capacity - 1 /\ tail \in 0 .. Capacity - 1
      /\ count \in 1 .. Capacity /\ dropped \in 0 .. MaxDropped
      /\ Capacity \in Nat /\ Capacity > 0 /\ MaxDropped \in Nat
      /\ items \in [0 .. Capacity - 1 -> Sounds]
      /\ tail = (head + count) % Capacity
  BY QueueAssumption DEF RingOK, Sounds, Pop
<1>2. /\ Queued \in Seq(Sounds) /\ Len(Queued) = count
      /\ \A i \in 1 .. count :
            Queued[i] = items[IF head + i - 1 < Capacity THEN head + i - 1
                              ELSE head + i - 1 - Capacity]
      /\ tail = IF head + count < Capacity THEN head + count ELSE head + count - Capacity
  BY QueueFacts DEF Unrolled
<1>3. /\ head' = (head + 1) % Capacity /\ count' = count - 1
      /\ items' = items /\ tail' = tail /\ dropped' = dropped
  BY DEF Pop
<1>4. head' = IF head + 1 < Capacity THEN head + 1 ELSE head + 1 - Capacity
  BY <1>1, <1>3, Wraps
<1>5. head' \in 0 .. Capacity - 1 /\ count' \in 0 .. Capacity - 1
  BY <1>1, <1>3, <1>4
<1>6. (head' + count') % Capacity = IF head' + count' < Capacity THEN head' + count'
                                    ELSE head' + count' - Capacity
  <2>1. count' \in 0 .. Capacity
    BY <1>1, <1>5
  <2> QED
    BY <2>1, <1>5, SumWraps
<1>7. tail' = (head' + count') % Capacity
  BY <1>1, <1>2, <1>3, <1>4, <1>6
<1>8. RingOK'
  BY <1>1, <1>3, <1>5, <1>7 DEF RingOK, Sounds
<1>9. /\ Queued' \in Seq(Sounds) /\ Len(Queued') = count'
      /\ \A i \in 1 .. count' :
            Queued'[i] = items'[IF head' + i - 1 < Capacity THEN head' + i - 1
                                ELSE head' + i - 1 - Capacity]
  <2>1. Unrolled'
    BY <1>8, QueueFacts, PTL
  <2> QED
    BY <2>1 DEF Unrolled
<1>10. Queued # <<>> /\ Tail(Queued) \in Seq(Sounds) /\ Len(Tail(Queued)) = count - 1
  BY <1>1, <1>2
<1>11. ASSUME NEW i \in 1 .. count - 1
       PROVE  Queued'[i] = Tail(Queued)[i]
  <2>1. Tail(Queued)[i] = Queued[i + 1]
    BY <1>1, <1>2
  <2>2. i + 1 \in 1 .. count /\ i \in 1 .. count'
    BY <1>1, <1>3
  <2>3. (IF head' + i - 1 < Capacity THEN head' + i - 1 ELSE head' + i - 1 - Capacity)
           = IF head + (i + 1) - 1 < Capacity THEN head + (i + 1) - 1
             ELSE head + (i + 1) - 1 - Capacity
    BY <1>1, <1>4
  <2> QED
    BY <2>1, <2>2, <2>3, <1>2, <1>3, <1>9
<1>12. Queued' = Tail(Queued)
  BY <1>1, <1>3, <1>9, <1>10, <1>11
<1> QED
  BY <1>3, <1>8, <1>10, <1>12 DEF Fifo!Take, Fifo!FifoNext

\* What the loop plays is what the callbacks left, in their order (HaAsyncQueue).
THEOREM QueueIsFifo == QueueSpec => ImplementsFifo
<1>1. QueueInit => RingOK /\ Fifo!FifoInit
  BY RingBegins
<1>2. ASSUME RingOK, [QueueNext]_queueVars
      PROVE  RingOK' /\ [Fifo!FifoNext]_<<Queued, dropped>>
  <2>1. CASE UNCHANGED queueVars
    BY <1>2, <2>1 DEF RingOK, Queued, queueVars
  <2> QED
    BY <1>2, <2>1, Pushing, Popping DEF QueueNext
<1> QED
  BY <1>1, <1>2, PTL DEF QueueSpec, ImplementsFifo, Fifo!FifoSpec

-----------------------------------------------------------------------------
(* The socket table. *)

AdmissionTypeOK ==
    /\ clock \in Time
    /\ slot \in [Socket -> {"none", "pending", "authenticated"}]
    /\ since \in [Socket -> Time]
    /\ flows \in SUBSET Socket
    /\ link \in [Socket -> {"gone", "open", "closing"}]
    /\ accepting \in BOOLEAN
    /\ tick \in [at : {"top", "tick", "close"}, now : Time, expired : SUBSET Socket]

\* The list of haSocketTick has room for every pending socket.
PendingFit ==
    /\ IsFiniteSet(In("pending"))
    /\ Cardinality(In("pending")) <= PendingLimit

\* How old the loop's reading of the clock is.
Reading == Since(clock, tick.now)
Paced   == Reading <= (IF tick.at = "top" THEN TickPeriod ELSE TickLag)

\* Who was not late at the last tick is late by no more than the time since then.
Grace   == IF tick.at = "tick" THEN TickPeriod ELSE 0
Waiting == \A s \in In("pending") : Since(clock, since[s]) < Deadline + Reading + Grace

AdmissionInv == AdmissionTypeOK /\ SlotsAgree /\ PendingFit /\ Paced /\ Waiting

-----------------------------------------------------------------------------
LEMMA LimitFacts ==
    /\ PendingLimit \in Nat /\ PendingLimit > 0
    /\ Deadline \in Nat /\ Deadline > 0
    /\ TickLag \in Nat /\ TickPeriod \in Nat /\ TickLag <= TickPeriod
    /\ Deadline + TickPeriod + TickLag < Word
    /\ Word \in Nat /\ Word > 0
BY AdmissionAssumption, WordFacts

\* Two differences that follow each other add up, or are one turn of the clock too many.
LEMMA ChainFacts ==
    ASSUME NEW a \in Time, NEW b \in Time, NEW c \in Time
    PROVE  Since(a, c) = IF Since(a, b) + Since(b, c) < Word
                         THEN Since(a, b) + Since(b, c)
                         ELSE Since(a, b) + Since(b, c) - Word
<1>1. Since(a, b) = IF a >= b THEN a - b ELSE a - b + Word
  BY SinceFacts
<1>2. Since(b, c) = IF b >= c THEN b - c ELSE b - c + Word
  BY SinceFacts
<1>3. Since(a, c) = IF a >= c THEN a - c ELSE a - c + Word
  BY SinceFacts
<1> QED
  BY <1>1, <1>2, <1>3, WordFacts

LEMMA Typed ==
    ASSUME AdmissionTypeOK
    PROVE  /\ clock \in Time /\ tick.now \in Time /\ tick.expired \in SUBSET Socket
           /\ Reading \in Nat /\ Reading < Word
           /\ \A s \in Socket : /\ since[s] \in Time
                                /\ Since(clock, since[s]) \in Nat
                                /\ Since(clock, since[s]) < Word
<1>1. clock \in Time /\ tick.now \in Time /\ tick.expired \in SUBSET Socket
  BY DEF AdmissionTypeOK
<1>2. Since(clock, tick.now) \in 0 .. Word - 1
  BY <1>1, SinceFacts
<1>3. \A s \in Socket : since[s] \in Time /\ Since(clock, since[s]) \in 0 .. Word - 1
  BY <1>1, SinceFacts DEF AdmissionTypeOK
<1> QED
  BY <1>1, <1>2, <1>3, WordFacts DEF Reading

\* What pends afterwards pended before.
LEMMA FewerPend ==
    ASSUME PendingFit, In("pending")' \subseteq In("pending")
    PROVE  PendingFit'
<1>1. IsFiniteSet(In("pending")) /\ Cardinality(In("pending")) <= PendingLimit
  BY DEF PendingFit
<1>2. /\ IsFiniteSet(In("pending")')
      /\ Cardinality(In("pending")') <= Cardinality(In("pending"))
  BY <1>1, FS_Subset
<1>3. Cardinality(In("pending")) \in Nat /\ Cardinality(In("pending")') \in Nat
  BY <1>1, <1>2, FS_CardinalityType
<1>4. Cardinality(In("pending")') <= PendingLimit
  BY <1>1, <1>2, <1>3, LimitFacts
<1> QED
  BY <1>2, <1>4 DEF PendingFit

\* A step that leaves the clock and the loop alone, and lets nobody wait anew.
LEMMA StillWaiting ==
    ASSUME AdmissionInv, AdmissionTypeOK', SlotsAgree', UNCHANGED <<clock, tick>>,
           In("pending")' \subseteq In("pending"),
           \A s \in In("pending")' : since'[s] = since[s]
    PROVE  AdmissionInv'
<1>1. PendingFit'
  BY FewerPend DEF AdmissionInv
<1>2. Reading' = Reading /\ Grace' = Grace /\ tick' = tick /\ clock' = clock
  BY DEF Reading, Grace
<1>3. Paced'
  BY <1>2 DEF AdmissionInv, Paced
<1>4. Waiting'
  <2>1. SUFFICES ASSUME NEW s \in In("pending")'
                 PROVE  Since(clock, since'[s]) < Deadline + Reading + Grace
    BY <1>2 DEF Waiting
  <2>2. s \in In("pending") /\ since'[s] = since[s]
    BY <2>1
  <2> QED
    BY <2>2 DEF AdmissionInv, Waiting
<1> QED
  BY <1>1, <1>3, <1>4 DEF AdmissionInv

-----------------------------------------------------------------------------
LEMMA AdmissionBegins ==
    ASSUME AdmissionInit PROVE AdmissionInv
<1> USE DEF AdmissionInit
<1>1. AdmissionTypeOK
  BY WordFacts DEF AdmissionTypeOK
<1>2. SlotsAgree
  BY DEF SlotsAgree, Known
<1>3. In("pending") = {}
  BY DEF In
<1>4. PendingFit
  BY <1>3, FS_EmptySet, LimitFacts DEF PendingFit
<1>5. Reading = 0
  BY SinceFacts, WordFacts DEF Reading
<1>6. Paced
  BY <1>5, LimitFacts DEF Paced
<1>7. Waiting
  BY <1>3 DEF Waiting
<1> QED
  BY <1>1, <1>2, <1>4, <1>6, <1>7 DEF AdmissionInv

LEMMA Connecting ==
    ASSUME AdmissionInv, NEW s \in Socket, Connects(s)
    PROVE  AdmissionInv'
<1>1. AdmissionTypeOK /\ SlotsAgree /\ PendingFit /\ Paced /\ Waiting
  BY DEF AdmissionInv
<1>2. clock' = clock /\ tick' = tick /\ accepting' = accepting
      /\ ~Known(s) /\ s \notin flows
  BY DEF Connects, Fresh
<1>3. CASE /\ link' = [link EXCEPT ![s] = "closing"]
           /\ UNCHANGED <<slot, since, flows>>
  <2>1. AdmissionTypeOK'
    BY <1>1, <1>2, <1>3 DEF AdmissionTypeOK
  <2>2. SlotsAgree'
    BY <1>1, <1>2, <1>3 DEF AdmissionTypeOK, SlotsAgree, Known
  <2>3. In("pending")' = In("pending") /\ since' = since
    BY <1>3 DEF In
  <2> QED
    BY <2>1, <2>2, <2>3, <1>2, StillWaiting
<1>4. CASE /\ Cardinality(In("pending")) < PendingLimit
           /\ slot' = [slot EXCEPT ![s] = "pending"]
           /\ since' = [since EXCEPT ![s] = clock]
           /\ flows' = flows \cup {s}
           /\ link' = [link EXCEPT ![s] = "open"]
  <2>1. AdmissionTypeOK'
    BY <1>1, <1>2, <1>4 DEF AdmissionTypeOK
  <2>2. SlotsAgree'
    BY <1>1, <1>2, <1>4 DEF AdmissionTypeOK, SlotsAgree, Known
  <2>3. In("pending")' = In("pending") \cup {s} /\ s \notin In("pending")
    BY <1>1, <1>2, <1>4 DEF AdmissionTypeOK, In, Known
  <2>4. PendingFit'
    <3>1. IsFiniteSet(In("pending"))
      BY <1>1 DEF PendingFit
    <3>2. /\ IsFiniteSet(In("pending") \cup {s})
          /\ Cardinality(In("pending") \cup {s}) = Cardinality(In("pending")) + 1
          /\ Cardinality(In("pending")) \in Nat
      BY <2>3, <3>1, FS_AddElement, FS_CardinalityType
    <3>3. Cardinality(In("pending") \cup {s}) <= PendingLimit
      BY <3>2, <1>4, LimitFacts
    <3> QED
      BY <2>3, <3>2, <3>3 DEF PendingFit
  <2>5. Reading' = Reading /\ Grace' = Grace /\ Paced'
    BY <1>1, <1>2 DEF Reading, Grace, Paced
  <2>6. Reading \in Nat /\ Grace \in Nat
    BY <1>1, Typed, LimitFacts DEF Grace
  <2>7. Since(clock, clock) = 0
    BY <1>1, Typed, SinceFacts, WordFacts
  <2>8. Waiting'
    <3>1. SUFFICES ASSUME NEW t \in In("pending")'
                   PROVE  Since(clock, since'[t]) < Deadline + Reading + Grace
      BY <1>2, <2>5 DEF Waiting
    <3>2. CASE t = s
      <4>1. since'[s] = clock
        BY <1>1, <1>4 DEF AdmissionTypeOK
      <4> QED
        BY <3>2, <4>1, <2>6, <2>7, LimitFacts
    <3>3. CASE t # s
      <4>1. t \in In("pending") /\ since'[t] = since[t]
        BY <3>1, <3>3, <2>3, <1>1, <1>4 DEF AdmissionTypeOK, In
      <4> QED
        BY <4>1, <1>1 DEF Waiting
    <3> QED
      BY <3>2, <3>3
  <2> QED
    BY <2>1, <2>2, <2>4, <2>5, <2>8 DEF AdmissionInv
<1> QED
  BY <1>3, <1>4 DEF Connects, Admits, FlowBegins

LEMMA Greeting ==
    ASSUME AdmissionInv, NEW s \in Socket, Greets(s)
    PROVE  AdmissionInv'
<1>1. AdmissionTypeOK /\ SlotsAgree
  BY DEF AdmissionInv
<1>2. /\ Known(s) /\ UNCHANGED <<clock, flows, accepting, tick>>
      /\ slot' = [slot EXCEPT ![s] = "authenticated"]
      /\ since' = [since EXCEPT ![s] = 0]
  BY DEF Greets
<1>3. PICK old \in SUBSET Socket :
          link' = [t \in Socket |-> IF t \in old /\ link[t] = "open" THEN "closing" ELSE link[t]]
  BY DEF Greets, In
<1>4. AdmissionTypeOK'
  BY <1>1, <1>2, <1>3, WordFacts DEF AdmissionTypeOK
<1>5. SlotsAgree'
  BY <1>1, <1>2, <1>3 DEF AdmissionTypeOK, SlotsAgree, Known
<1>6. /\ In("pending")' \subseteq In("pending")
      /\ \A t \in In("pending")' : since'[t] = since[t]
  BY <1>1, <1>2 DEF AdmissionTypeOK, In
<1> QED
  BY <1>2, <1>4, <1>5, <1>6, StillWaiting

LEMMA Closing ==
    ASSUME AdmissionInv, NEW s \in Socket, Closes(s)
    PROVE  AdmissionInv'
<1>1. AdmissionTypeOK /\ SlotsAgree
  BY DEF AdmissionInv
<1>2. /\ link' = [link EXCEPT ![s] = "closing"]
      /\ UNCHANGED <<clock, slot, since, flows, accepting, tick>>
  BY DEF Closes
<1>3. AdmissionTypeOK'
  BY <1>1, <1>2 DEF AdmissionTypeOK
<1>4. SlotsAgree'
  BY <1>1, <1>2 DEF AdmissionTypeOK, SlotsAgree, Known
<1>5. In("pending")' = In("pending") /\ since' = since
  BY <1>2 DEF In
<1> QED
  BY <1>2, <1>3, <1>4, <1>5, StillWaiting

LEMMA Forgetting ==
    ASSUME AdmissionTypeOK, NEW S \in SUBSET Socket, Forgets(S)
    PROVE  /\ slot' \in [Socket -> {"none", "pending", "authenticated"}]
           /\ since' \in [Socket -> Time]
           /\ In("pending")' = In("pending") \ S
           /\ \A t \in In("pending")' : since'[t] = since[t]
           /\ {t \in Socket : Known(t)}' = {t \in Socket : Known(t)} \ S
BY WordFacts DEF AdmissionTypeOK, Forgets, In, Known

LEMMA Disconnecting ==
    ASSUME AdmissionInv, NEW s \in Socket, Disconnects(s)
    PROVE  AdmissionInv'
<1>1. AdmissionTypeOK /\ SlotsAgree
  BY DEF AdmissionInv
<1>2. /\ link' = [link EXCEPT ![s] = "gone"]
      /\ Forgets({s}) /\ flows' = flows \ {s}
      /\ UNCHANGED <<clock, accepting, tick>>
  BY DEF Disconnects
<1>3. {s} \in SUBSET Socket
  OBVIOUS
<1>4. /\ slot' \in [Socket -> {"none", "pending", "authenticated"}]
      /\ since' \in [Socket -> Time]
      /\ In("pending")' = In("pending") \ {s}
      /\ \A t \in In("pending")' : since'[t] = since[t]
      /\ {t \in Socket : Known(t)}' = {t \in Socket : Known(t)} \ {s}
  BY <1>1, <1>2, <1>3, Forgetting
<1>5. AdmissionTypeOK'
  BY <1>1, <1>2, <1>4 DEF AdmissionTypeOK
<1>6. SlotsAgree'
  BY <1>1, <1>2, <1>4 DEF AdmissionTypeOK, SlotsAgree
<1> QED
  BY <1>2, <1>4, <1>5, <1>6, StillWaiting

LEMMA Reads ==
    ASSUME AdmissionInv, LoopReads
    PROVE  AdmissionInv'
<1>1. AdmissionTypeOK /\ SlotsAgree /\ PendingFit /\ Paced /\ Waiting
  BY DEF AdmissionInv
<1>2. /\ tick.at = "top" /\ UNCHANGED <<clock, slot, since, flows, link, accepting>>
      /\ tick' = [at |-> "tick", now |-> clock, expired |-> {}]
  BY DEF LoopReads
<1>3. AdmissionTypeOK'
  BY <1>1, <1>2 DEF AdmissionTypeOK
<1>4. SlotsAgree'
  BY <1>1, <1>2 DEF SlotsAgree, Known
<1>5. In("pending")' = In("pending")
  BY <1>2 DEF In
<1>6. PendingFit'
  BY <1>1, <1>5 DEF PendingFit
<1>7. Reading' = 0 /\ Grace' = TickPeriod /\ Grace = 0
  <2>1. Since(clock, clock) = 0
    BY <1>1, Typed, SinceFacts, WordFacts
  <2> QED
    BY <2>1, <1>2 DEF Reading, Grace
<1>8. Paced'
  BY <1>2, <1>7, LimitFacts DEF Paced
<1>9. Reading \in Nat /\ Reading <= TickPeriod
  BY <1>1, <1>2, Typed DEF Paced
<1>10. Waiting'
  <2>1. SUFFICES ASSUME NEW s \in In("pending")
                 PROVE  Since(clock, since[s]) < Deadline + 0 + TickPeriod
    BY <1>2, <1>5, <1>7 DEF Waiting
  <2>2. Since(clock, since[s]) \in Nat
    BY <1>1, Typed DEF In
  <2>3. Since(clock, since[s]) < Deadline + Reading + 0
    BY <1>1, <1>7 DEF Waiting
  <2> QED
    BY <2>2, <2>3, <1>9, LimitFacts
<1> QED
  BY <1>3, <1>4, <1>6, <1>8, <1>10 DEF AdmissionInv

\* The list holds everyone who is late.
LEMMA AllExpire ==
    ASSUME AdmissionInv, NEW expired \in SUBSET Late(tick.now),
           Cardinality(expired) = (IF Cardinality(Late(tick.now)) < PendingLimit
                                   THEN Cardinality(Late(tick.now)) ELSE PendingLimit)
    PROVE  expired = Late(tick.now)
<1> DEFINE L == Late(tick.now)
<1>1. L \subseteq In("pending")
  BY DEF Late
<1>2. IsFiniteSet(In("pending")) /\ Cardinality(In("pending")) <= PendingLimit
  BY DEF AdmissionInv, PendingFit
<1>3. IsFiniteSet(L) /\ Cardinality(L) <= Cardinality(In("pending"))
  BY <1>1, <1>2, FS_Subset
<1>4. Cardinality(L) \in Nat /\ Cardinality(In("pending")) \in Nat
  BY <1>2, <1>3, FS_CardinalityType
<1>5. Cardinality(expired) = Cardinality(L)
  BY <1>2, <1>3, <1>4, LimitFacts
<1>6. expired \subseteq L
  OBVIOUS
<1> HIDE DEF L
<1> QED
  BY <1>3, <1>5, <1>6, FS_Subset DEF L

LEMMA Expiring ==
    ASSUME AdmissionInv, Expires
    PROVE  AdmissionInv'
<1>1. AdmissionTypeOK /\ SlotsAgree /\ PendingFit /\ Paced /\ Waiting
  BY DEF AdmissionInv
<1>2. PICK expired \in SUBSET Late(tick.now) :
          /\ Cardinality(expired) = (IF Cardinality(Late(tick.now)) < PendingLimit
                                     THEN Cardinality(Late(tick.now)) ELSE PendingLimit)
          /\ Forgets(expired)
          /\ flows' = flows \ expired
          /\ tick' = [tick EXCEPT !.at = "close", !.expired = expired]
  BY DEF Expires
<1>3. tick.at = "tick" /\ UNCHANGED <<clock, link, accepting>>
  BY DEF Expires
<1>4. expired = Late(tick.now)
  BY <1>2, AllExpire
<1>5. expired \in SUBSET Socket
  BY <1>4 DEF Late, In
<1>6. /\ slot' \in [Socket -> {"none", "pending", "authenticated"}]
      /\ since' \in [Socket -> Time]
      /\ In("pending")' = In("pending") \ expired
      /\ \A t \in In("pending")' : since'[t] = since[t]
      /\ {t \in Socket : Known(t)}' = {t \in Socket : Known(t)} \ expired
  BY <1>1, <1>2, <1>5, Forgetting
<1>7. tick'.at = "close" /\ tick'.now = tick.now
      /\ tick' \in [at : {"top", "tick", "close"}, now : Time, expired : SUBSET Socket]
  BY <1>1, <1>2, <1>5 DEF AdmissionTypeOK
<1>8. AdmissionTypeOK'
  BY <1>1, <1>2, <1>3, <1>5, <1>6, <1>7 DEF AdmissionTypeOK
<1>9. SlotsAgree'
  BY <1>1, <1>2, <1>3, <1>6 DEF SlotsAgree
<1>10. PendingFit'
  BY <1>1, <1>6, FewerPend
<1>11. Reading' = Reading /\ Grace' = 0 /\ Reading \in Nat
  BY <1>1, <1>3, <1>7, Typed DEF Reading, Grace
<1>12. Paced'
  BY <1>1, <1>3, <1>7, <1>11 DEF Paced
<1>13. Waiting'
  <2>1. SUFFICES ASSUME NEW s \in In("pending")'
                 PROVE  Since(clock, since[s]) < Deadline + Reading
    BY <1>3, <1>6, <1>11, LimitFacts DEF Waiting
  <2>2. s \in In("pending") /\ s \in Socket /\ s \notin Late(tick.now)
    BY <2>1, <1>4, <1>6 DEF In
  <2>3. clock \in Time /\ tick.now \in Time /\ since[s] \in Time
    BY <2>2, <1>1, Typed
  <2>4. Since(tick.now, since[s]) \in 0 .. Word - 1
    BY <2>3, SinceFacts
  <2>5. Since(tick.now, since[s]) < Deadline
    BY <2>2, <2>4, LimitFacts DEF Late
  <2>6. Since(clock, since[s]) = IF Reading + Since(tick.now, since[s]) < Word
                                 THEN Reading + Since(tick.now, since[s])
                                 ELSE Reading + Since(tick.now, since[s]) - Word
    BY <2>3, ChainFacts DEF Reading
  <2> QED
    BY <2>4, <2>5, <2>6, <1>11, LimitFacts
<1> QED
  BY <1>8, <1>9, <1>10, <1>12, <1>13 DEF AdmissionInv

LEMMA ClosingExpired ==
    ASSUME AdmissionInv, ClosesExpired
    PROVE  AdmissionInv'
<1>1. AdmissionTypeOK /\ SlotsAgree /\ PendingFit /\ Paced /\ Waiting
  BY DEF AdmissionInv
<1>2. /\ tick.at = "close" /\ UNCHANGED <<clock, slot, since, flows, accepting>>
      /\ link' = [s \in Socket |->
                     IF s \in tick.expired /\ link[s] = "open" THEN "closing" ELSE link[s]]
      /\ tick' = [tick EXCEPT !.at = "top", !.expired = {}]
  BY DEF ClosesExpired
<1>3. tick'.at = "top" /\ tick'.now = tick.now
      /\ tick' \in [at : {"top", "tick", "close"}, now : Time, expired : SUBSET Socket]
  BY <1>1, <1>2 DEF AdmissionTypeOK
<1>4. AdmissionTypeOK'
  BY <1>1, <1>2, <1>3 DEF AdmissionTypeOK
<1>5. SlotsAgree'
  BY <1>1, <1>2 DEF AdmissionTypeOK, SlotsAgree, Known
<1>6. In("pending")' = In("pending")
  BY <1>2 DEF In
<1>7. PendingFit'
  BY <1>1, <1>6 DEF PendingFit
<1>8. Reading' = Reading /\ Grace' = Grace
  BY <1>2, <1>3 DEF Reading, Grace
<1>9. Paced'
  <2>1. Reading \in Nat /\ Reading <= TickLag
    BY <1>1, <1>2, Typed DEF Paced
  <2> QED
    BY <2>1, <1>3, <1>8, LimitFacts DEF Paced
<1>10. Waiting'
  BY <1>1, <1>2, <1>6, <1>8 DEF Waiting
<1> QED
  BY <1>4, <1>5, <1>7, <1>9, <1>10 DEF AdmissionInv

LEMMA Stopping ==
    ASSUME AdmissionInv, Suspends \/ StopsServer \/ Accepts
    PROVE  AdmissionInv'
<1>1. AdmissionTypeOK /\ SlotsAgree
  BY DEF AdmissionInv
<1>2. CASE Suspends
  <2>1. /\ accepting' = FALSE /\ Forgets(Socket) /\ flows' = {}
        /\ UNCHANGED <<clock, link, tick>>
    BY <1>2 DEF Suspends
  <2>2. /\ slot' \in [Socket -> {"none", "pending", "authenticated"}]
        /\ since' \in [Socket -> Time]
        /\ In("pending")' = In("pending") \ Socket
        /\ \A t \in In("pending")' : since'[t] = since[t]
        /\ {t \in Socket : Known(t)}' = {t \in Socket : Known(t)} \ Socket
    BY <1>1, <2>1, Forgetting
  <2>3. AdmissionTypeOK'
    BY <1>1, <2>1, <2>2 DEF AdmissionTypeOK
  <2>4. SlotsAgree'
    BY <1>1, <2>1, <2>2 DEF SlotsAgree
  <2> QED
    BY <2>1, <2>2, <2>3, <2>4, StillWaiting
<1>3. CASE StopsServer
  <2>1. /\ link' = [s \in Socket |-> IF link[s] = "open" THEN "closing" ELSE link[s]]
        /\ UNCHANGED <<clock, slot, since, flows, accepting, tick>>
    BY <1>3 DEF StopsServer
  <2>2. AdmissionTypeOK'
    BY <1>1, <2>1 DEF AdmissionTypeOK
  <2>3. SlotsAgree'
    BY <1>1, <2>1 DEF AdmissionTypeOK, SlotsAgree, Known
  <2>4. In("pending")' = In("pending") /\ since' = since
    BY <2>1 DEF In
  <2> QED
    BY <2>1, <2>2, <2>3, <2>4, StillWaiting
<1>4. CASE Accepts
  <2>1. accepting' = TRUE /\ UNCHANGED <<clock, slot, since, flows, link, tick>>
    BY <1>4 DEF Accepts
  <2>2. AdmissionTypeOK'
    BY <1>1, <2>1 DEF AdmissionTypeOK
  <2>3. SlotsAgree'
    BY <1>1, <2>1 DEF SlotsAgree, Known
  <2>4. In("pending")' = In("pending") /\ since' = since
    BY <2>1 DEF In
  <2> QED
    BY <2>1, <2>2, <2>3, <2>4, StillWaiting
<1> QED
  BY <1>2, <1>3, <1>4

LEMMA Elapsing ==
    ASSUME AdmissionInv, AdmissionElapse
    PROVE  AdmissionInv'
<1>1. AdmissionTypeOK /\ SlotsAgree /\ PendingFit /\ Paced /\ Waiting
  BY DEF AdmissionInv
<1>2. /\ Reading < (IF tick.at = "top" THEN TickPeriod ELSE TickLag)
      /\ Ticks /\ slot' = slot /\ since' = since /\ flows' = flows
      /\ link' = link /\ accepting' = accepting /\ tick' = tick
  BY DEF AdmissionElapse, Reading, admissionVars
<1>3. clock \in Time /\ tick.now \in Time /\ Reading \in Nat
  BY <1>1, Typed
<1>4. /\ clock' \in Time
      /\ Reading' = IF Reading = Word - 1 THEN 0 ELSE Reading + 1
  BY <1>2, <1>3, TickFacts DEF Reading
<1>5. Reading < TickPeriod /\ Reading' = Reading + 1
  BY <1>2, <1>3, <1>4, LimitFacts
<1>6. AdmissionTypeOK'
  BY <1>1, <1>2, <1>4 DEF AdmissionTypeOK
<1>7. SlotsAgree' /\ PendingFit' /\ In("pending")' = In("pending") /\ Grace' = Grace
  BY <1>1, <1>2 DEF SlotsAgree, PendingFit, Known, In, Grace
<1>8. Paced'
  BY <1>2, <1>3, <1>5, LimitFacts DEF Paced
<1>9. Grace \in Nat
  BY LimitFacts DEF Grace
<1>10. Waiting'
  <2>1. SUFFICES ASSUME NEW s \in In("pending")
                 PROVE  Since(clock', since[s]) < Deadline + (Reading + 1) + Grace
    BY <1>2, <1>5, <1>7 DEF Waiting
  <2>2. s \in Socket /\ since[s] \in Time /\ Since(clock, since[s]) \in Nat
    BY <1>1, Typed DEF In
  <2>3. Since(clock', since[s]) = IF Since(clock, since[s]) = Word - 1 THEN 0
                                  ELSE Since(clock, since[s]) + 1
    BY <2>2, <1>2, <1>3, TickFacts
  <2>4. Since(clock, since[s]) < Deadline + Reading + Grace
    BY <1>1 DEF Waiting
  <2> QED
    BY <2>2, <2>3, <2>4, <1>3, <1>9, LimitFacts
<1> QED
  BY <1>6, <1>7, <1>8, <1>10 DEF AdmissionInv

LEMMA AdmissionRests ==
    ASSUME AdmissionInv, UNCHANGED <<clock, admissionVars>> PROVE AdmissionInv'
BY DEF AdmissionInv, AdmissionTypeOK, SlotsAgree, PendingFit, Paced, Waiting, Reading, Grace,
       In, Known, admissionVars

THEOREM AdmissionInvariant == AdmissionSpec => []AdmissionInv
<1>1. AdmissionInit => AdmissionInv
  BY AdmissionBegins
<1>2. AdmissionInv /\ [AdmissionNext]_<<clock, admissionVars>> => AdmissionInv'
  BY Connecting, Greeting, Closing, Disconnecting, Reads, Expiring, ClosingExpired, Stopping,
     Elapsing, AdmissionRests DEF AdmissionNext
<1> QED
  BY <1>1, <1>2, PTL DEF AdmissionSpec

LEMMA SlotsFollow ==
    ASSUME AdmissionInv PROVE SlotsReturn
<1>1. AdmissionTypeOK /\ SlotsAgree /\ Paced /\ Waiting
  BY DEF AdmissionInv
<1>2. Reading \in Nat /\ Reading + Grace <= TickPeriod + TickLag
  BY <1>1, Typed, LimitFacts DEF Paced, Grace
<1>3. Grace \in Nat
  BY LimitFacts DEF Grace
<1>4. ASSUME NEW s \in In("pending")
      PROVE  Since(clock, since[s]) < Deadline + TickPeriod + TickLag
  <2>1. Since(clock, since[s]) < Deadline + Reading + Grace
    BY <1>1 DEF Waiting
  <2>2. Since(clock, since[s]) \in Nat
    BY <1>1, Typed DEF In
  <2> QED
    BY <2>1, <2>2, <1>2, <1>3, LimitFacts
<1> QED
  BY <1>1, <1>4 DEF SlotsReturn, PendingEnds

\* No interleaving of callbacks, hello deadlines and stops of the access point leaks a slot,
\* and no silent phone keeps one for longer than its deadline (onWsEvent, haSocketTick).
THEOREM SlotsComeBack == AdmissionSpec => []SlotsReturn
BY AdmissionInvariant, SlotsFollow, PTL

LEMMA DeadlineFollows ==
    ASSUME AdmissionInv, NEW s \in Socket, Expires, Known(s), slot'[s] = "none"
    PROVE  /\ slot[s] = "pending"
           /\ \/ Since(clock, since[s]) >= Deadline
              \/ Since(clock, since[s]) < Since(clock, tick.now)
<1>1. AdmissionTypeOK
  BY DEF AdmissionInv
<1>2. PICK expired \in SUBSET Late(tick.now) : Forgets(expired)
  BY DEF Expires
<1>3. s \in Late(tick.now)
  BY <1>2 DEF Forgets, Known
<1>4. slot[s] = "pending" /\ Since(tick.now, since[s]) >= Deadline
  BY <1>3 DEF Late, In
<1>5. clock \in Time /\ tick.now \in Time /\ since[s] \in Time /\ Reading \in Nat
  BY <1>1, Typed
<1>6. Since(tick.now, since[s]) \in 0 .. Word - 1
  BY <1>5, SinceFacts
<1>7. Since(clock, since[s]) = IF Reading + Since(tick.now, since[s]) < Word
                               THEN Reading + Since(tick.now, since[s])
                               ELSE Reading + Since(tick.now, since[s]) - Word
  BY <1>5, ChainFacts DEF Reading
<1>8. \/ Since(clock, since[s]) >= Deadline
      \/ Since(clock, since[s]) < Reading
  BY <1>4, <1>5, <1>6, <1>7, LimitFacts
<1> QED
  BY <1>4, <1>8 DEF Reading

\* A player's socket has no deadline, and one that connected before the loop read the clock
\* has all of its own (haSocketHelloExpired).  One that connected later is exempt: the code
\* closes it at once.  That silent ones are closed at all is SlotsComeBack's part.
THEOREM DeadlinesAreKept == AdmissionSpec => DeadlineKept
<1>1. AdmissionInv /\ [AdmissionNext]_<<clock, admissionVars>>
      => [ \A s \in Socket :
              Expires /\ Known(s) /\ slot'[s] = "none"
              => /\ slot[s] = "pending"
                 /\ \/ Since(clock, since[s]) >= Deadline
                    \/ Since(clock, since[s]) < Since(clock, tick.now) ]_<<clock, admissionVars>>
  BY DeadlineFollows
<1> QED
  BY <1>1, AdmissionInvariant, PTL DEF AdmissionSpec, DeadlineKept

-----------------------------------------------------------------------------
(* The ledger has a row for every seat. *)

LEMMA JoinKeepsRow ==
    ASSUME RowReserved, NEW id, CanTrack(id), Joins(id)
    PROVE  RowReserved'
<1>1. CASE id \in rows
  <2>1. rows \cup {id} = rows
    BY <1>1
  <2> QED
    BY <2>1, <1>1 DEF Joins, RowReserved
<1>2. CASE id \notin rows
  <2>1. rows \ {id} = rows /\ Cardinality(rows) < Rows
    BY <1>2 DEF CanTrack
  <2> QED
    BY <2>1 DEF Joins, RowReserved
<1> QED
  BY <1>1, <1>2

\* Whoever has a seat has a row for the score (haHostCanTrackIdentity), whatever comes, goes
\* and is restored.
THEOREM RowsSuffice == AuthSpec => []RowReserved
<1>1. AuthInit => RowReserved
  BY DEF AuthInit, RowReserved
<1>2. ASSUME RowReserved, [AuthNext]_<<clock, authVars>>
      PROVE  RowReserved'
  <2>1. ASSUME NEW k \in Client, NEW id \in Guest, Refused(k, id) \/ Asked(k, id) \/ Wrong(k, id)
        PROVE  RowReserved'
    BY <1>2, <2>1 DEF Refused, Asked, Wrong, RowReserved
  <2>2. ASSUME NEW k \in Client, NEW id \in Guest, Right(k, id)
        PROVE  RowReserved'
    <3>1. CASE CanTrack(id)
      BY <1>2, <2>2, <3>1, JoinKeepsRow DEF Right
    <3>2. CASE ~CanTrack(id)
      BY <1>2, <2>2, <3>2 DEF Right, RowReserved
    <3> QED
      BY <3>1, <3>2
  <2>3. ASSUME NEW id \in Guest, KnownComes(id)
        PROVE  RowReserved'
    <3>1. CanTrack(id) /\ Joins(id)
      BY <2>3 DEF KnownComes, CanTrack
    <3> QED
      BY <1>2, <3>1, JoinKeepsRow
  <2>4. ASSUME NEW id \in Guest, Leaves(id)
        PROVE  RowReserved'
    BY <1>2, <2>4 DEF Leaves, RowReserved
  <2>5. CASE RestoreSession
    BY <2>5 DEF RestoreSession, RowReserved
  <2>6. CASE AuthElapse
    BY <1>2, <2>6 DEF AuthElapse, RowReserved
  <2>7. CASE UNCHANGED <<clock, authVars>>
    BY <1>2, <2>7 DEF authVars, RowReserved
  <2> QED
    BY <1>2, <2>1, <2>2, <2>3, <2>4, <2>5, <2>6, <2>7 DEF AuthNext
<1> QED
  BY <1>1, <1>2, PTL DEF AuthSpec

-----------------------------------------------------------------------------
(* The waiting time a phone is told is enough. *)

Counter == [fails : Nat, open : BOOLEAN, start : Time, lock : Time]
Entry   == [key : Client \cup {NoClient}, counter : Counter, seen : Time]
Answer  == [due : BOOLEAN, wait : Nat]

AuthTypeOK ==
    /\ clock \in Time /\ aged \in BOOLEAN
    /\ clients \in [Slot -> Entry] /\ global \in Counter
    /\ told \in [Client -> Answer]

\* A client has one bucket.
OneBucket ==
    \A i, j \in Slot : clients[i].key = clients[j].key /\ clients[i].key # NoClient => i = j

\* Until the clock has run half its range, a deadline lies ahead exactly when it is greater.
Soon(c) == c.lock <= clock + Lockout
Young   == ~aged => /\ 2 * clock <= Word
                    /\ Soon(global)
                    /\ \A i \in Slot : Soon(clients[i].counter)

\* Nobody was told less than what both of its counters still demand.
Enough ==
    ~aged => \A k \in Client : told[k].due =>
                 /\ Wait(global) <= told[k].wait
                 /\ \A i \in Slot : clients[i].key = k => Wait(clients[i].counter) <= told[k].wait

AuthInv == AuthTypeOK /\ OneBucket /\ Young /\ Enough

-----------------------------------------------------------------------------
LEMMA LockFacts ==
    /\ Lockout \in Nat /\ Lockout > 0 /\ 2 * Lockout < Word /\ Word \in Nat /\ Word > 2
    /\ ClientLimit \in Nat /\ GlobalLimit \in Nat /\ Buckets \in Nat /\ Buckets > 0
    /\ NoClient \notin Client
BY AuthAssumption, WordFacts

LEMMA ClearFacts == Clear \in Counter /\ Clear.lock = 0 /\ Clear.fails = 0 /\ Clear.open = FALSE
BY WordFacts DEF Clear, Counter

\* A nonempty set of numbers has a least element, and so has one of measured things.
LEMMA Smallest ==
    ASSUME NEW S \in SUBSET Nat, S # {}
    PROVE  \E i \in S : \A j \in S : i <= j
<1>1. PICK i \in S : \A j \in S : ~(<<j, i>> \in OpToRel(<, Nat))
  BY NatLessThanWellFounded, WFMin
<1>2. \A j \in S : ~(j < i)
  BY <1>1 DEF OpToRel
<1> QED
  BY <1>2

LEMMA LowestFacts ==
    ASSUME NEW S \in SUBSET Slot, S # {}
    PROVE  Lowest(S) \in S
<1>1. S \in SUBSET Nat
  BY LockFacts DEF Slot
<1>2. \E i \in S : \A j \in S : i <= j
  BY <1>1, Smallest
<1> QED
  BY <1>2 DEF Lowest

LEMMA SlotFacts ==
    ASSUME AuthTypeOK, NEW k \in Client
    PROVE  /\ SlotOf(k, clock) \in Slot
           /\ Held(k) # {} => clients[SlotOf(k, clock)].key = k
<1>1. CASE Held(k) # {}
  <2>1. Lowest(Held(k)) \in Held(k)
    BY <1>1, LowestFacts DEF Held
  <2> QED
    BY <1>1, <2>1 DEF SlotOf, Held
<1>2. CASE Held(k) = {} /\ Unheld # {}
  <2>1. Lowest(Unheld) \in Unheld
    BY <1>2, LowestFacts DEF Unheld
  <2> QED
    BY <1>2, <2>1 DEF SlotOf, Unheld
<1>3. CASE Held(k) = {} /\ Unheld = {}
  <2> DEFINE Age(i) == Since(clock, clients[i].seen)
             Youth == {Word - Age(i) : i \in Slot}
  <2>1. \A i \in Slot : Age(i) \in 0 .. Word - 1
    <3>1. \A i \in Slot : clients[i].seen \in Time
      BY DEF AuthTypeOK, Entry
    <3> QED
      BY <3>1, SinceFacts DEF AuthTypeOK
  <2>2. Youth \in SUBSET Nat
    BY <2>1, LockFacts
  <2>3. 1 \in Slot
    BY LockFacts DEF Slot
  <2>4. Youth # {}
    BY <2>3
  <2> HIDE DEF Youth
  <2>5. PICK y \in Youth : \A z \in Youth : y <= z
    BY <2>2, <2>4, Smallest
  <2> USE DEF Youth
  <2>6. PICK i \in Slot : y = Word - Age(i)
    BY <2>5
  <2>7. \A j \in Slot : Word - Age(i) <= Word - Age(j)
    BY <2>5, <2>6
  <2>8. \A j \in Slot : Age(i) >= Age(j)
    BY <2>1, <2>7, LockFacts
  <2>9. i \in Oldest(clock)
    BY <2>8 DEF Oldest
  <2>10. Lowest(Oldest(clock)) \in Oldest(clock)
    BY <2>9, LowestFacts DEF Oldest
  <2> QED
    BY <1>3, <2>10 DEF SlotOf, Oldest
<1> QED
  BY <1>1, <1>2, <1>3

LEMMA NormalFacts ==
    ASSUME NEW c \in Counter, NEW now
    PROVE  Normal(c, now) \in {c, Clear} /\ Normal(c, now) \in Counter
BY ClearFacts DEF Normal

\* What the search of haAuthClient does to the buckets.
LEMMA SoughtFacts ==
    ASSUME AuthTypeOK, NEW k \in Client
    PROVE  LET s == SlotOf(k, clock)
               b == Sought(k, clock)
           IN /\ s \in Slot /\ b \in [Slot -> Entry] /\ b[s].key = k
              /\ \A i \in Slot \ {s} : /\ b[i].key = clients[i].key
                                       /\ b[i].counter \in {clients[i].counter, Clear}
              /\ \/ clients[s].key = k /\ b[s].counter = clients[s].counter
                 \/ Held(k) = {} /\ b[s].counter = Clear
<1> DEFINE s == SlotOf(k, clock)
           b == Sought(k, clock)
           passed(i) == clients[i].key # NoClient /\ (Held(k) # {} => i < s)
<1>1. s \in Slot /\ (Held(k) # {} => clients[s].key = k)
  BY SlotFacts
<1>2. clock \in Time /\ clients \in [Slot -> Entry]
  BY DEF AuthTypeOK
<1>3. b = [i \in Slot |->
              IF i = s THEN IF Held(k) # {} THEN [clients[s] EXCEPT !.seen = clock]
                            ELSE [key |-> k, counter |-> Clear, seen |-> clock]
              ELSE IF passed(i) THEN [clients[i] EXCEPT !.counter = Normal(@, clock)]
              ELSE clients[i]]
  BY DEF Sought
<1> HIDE DEF s, b, passed
<1>4. b[s].key = k /\ b[s] \in Entry
      /\ \/ clients[s].key = k /\ b[s].counter = clients[s].counter
         \/ Held(k) = {} /\ b[s].counter = Clear
  <2>1. CASE Held(k) # {}
    <3>1. b[s] = [clients[s] EXCEPT !.seen = clock] /\ clients[s] \in Entry
      BY <2>1, <1>1, <1>2, <1>3
    <3> QED
      BY <2>1, <3>1, <1>1, <1>2 DEF Entry
  <2>2. CASE Held(k) = {}
    <3>1. b[s] = [key |-> k, counter |-> Clear, seen |-> clock]
      BY <2>2, <1>1, <1>3
    <3> QED
      BY <2>2, <3>1, <1>2, ClearFacts DEF Entry
  <2> QED
    BY <2>1, <2>2
<1>5. ASSUME NEW i \in Slot \ {s}
      PROVE  /\ b[i].key = clients[i].key /\ b[i] \in Entry
             /\ b[i].counter \in {clients[i].counter, Clear}
  <2>1. clients[i] \in Entry /\ clients[i].counter \in Counter
    BY <1>2 DEF Entry
  <2>2. CASE passed(i)
    <3>1. b[i] = [clients[i] EXCEPT !.counter = Normal(@, clock)]
      BY <2>2, <1>3
    <3>2. b[i] = [clients[i] EXCEPT !.counter = Normal(clients[i].counter, clock)]
      BY <3>1
    <3>3. Normal(clients[i].counter, clock) \in {clients[i].counter, Clear}
          /\ Normal(clients[i].counter, clock) \in Counter
      BY <2>1, NormalFacts
    <3> QED
      BY <2>1, <3>2, <3>3 DEF Entry
  <2>3. CASE ~passed(i)
    BY <2>1, <2>3, <1>3
  <2> QED
    BY <2>2, <2>3
<1>6. b \in [Slot -> Entry]
  BY <1>1, <1>3, <1>4, <1>5
<1> QED
  BY <1>1, <1>4, <1>5, <1>6 DEF s, b

LEMMA WaitFacts ==
    ASSUME clock \in Time, NEW c \in Counter
    PROVE  /\ Wait(c) \in Nat
           /\ 2 * clock <= Word /\ Soon(c)
              => Wait(c) = IF c.lock > clock THEN c.lock - clock ELSE 0
<1> DEFINE x == c.lock - clock
<1>1. c.lock \in 0 .. Word - 1 /\ clock \in 0 .. Word - 1
  BY WordFacts DEF Counter
<1>2. x \in Int
  BY <1>1
<1>3. /\ x \in 0 .. Word - 1 => x % Word = x
      /\ x + Word \in 0 .. Word - 1 => x % Word = x + Word
      /\ x % Word \in 0 .. Word - 1
  BY <1>2, ModFacts
<1>4. Wait(c) = IF 2 * (x % Word) < Word THEN x % Word ELSE 0
  BY DEF Wait, Remaining
<1>5. Wait(c) \in Nat
  BY <1>3, <1>4, LockFacts
<1>6. ASSUME 2 * clock <= Word, c.lock <= clock + Lockout
      PROVE  Wait(c) = IF c.lock > clock THEN c.lock - clock ELSE 0
  <2>1. CASE c.lock >= clock
    <3>1. x % Word = c.lock - clock
      BY <2>1, <1>1, <1>3, LockFacts
    <3> QED
      BY <2>1, <3>1, <1>1, <1>4, <1>6, LockFacts
  <2>2. CASE c.lock < clock
    <3>1. x % Word = c.lock - clock + Word
      BY <2>2, <1>1, <1>3, LockFacts
    <3> QED
      BY <2>2, <3>1, <1>1, <1>4, <1>6, LockFacts
  <2> QED
    BY <2>1, <2>2, <1>1
<1> QED
  BY <1>5, <1>6 DEF Soon

LEMMA ClearWait ==
    ASSUME clock \in Time PROVE Soon(Clear) /\ (2 * clock <= Word => Wait(Clear) = 0)
<1>1. Soon(Clear) /\ clock \in Nat
  BY ClearFacts, LockFacts, WordFacts DEF Soon
<1> QED
  BY <1>1, ClearFacts, WaitFacts

\* What the passing of a deadline, or of a window, leaves is no longer wait.
LEMMA NormalWait ==
    ASSUME clock \in Time, NEW c \in Counter, 2 * clock <= Word, Soon(c)
    PROVE  /\ Soon(Normal(c, clock)) /\ Wait(Normal(c, clock)) <= Wait(c)
           /\ Wait(Normal(c, clock)) \in Nat
<1>1. Normal(c, clock) \in {c, Clear} /\ Wait(c) \in Nat
  BY NormalFacts, WaitFacts
<1>2. Soon(Clear) /\ Wait(Clear) = 0
  BY ClearWait
<1> QED
  BY <1>1, <1>2

LEMMA FailedFacts ==
    ASSUME clock \in Time, NEW c \in Counter, NEW limit \in Nat
    PROVE  /\ Failed(c, limit, clock) \in Counter
           /\ 2 * clock <= Word /\ Soon(c) => Soon(Failed(c, limit, clock))
<1> DEFINE d == Normal(c, clock)
           until == (clock + Lockout) % Word
<1>1. d \in {c, Clear} /\ d \in Counter
  BY NormalFacts
<1>2. clock \in Nat /\ clock < Word
  BY WordFacts
<1>3. until \in Time
  BY <1>2, LockFacts, ModFacts, WordFacts
<1>4. Failed(c, limit, clock) =
         IF d.lock # 0 THEN d
         ELSE IF d.fails + 1 >= limit THEN [Clear EXCEPT !.lock = until]
         ELSE [fails |-> d.fails + 1, open |-> TRUE,
               start |-> IF d.open THEN d.start ELSE clock, lock |-> 0]
  BY DEF Failed
<1>5. ASSUME 2 * clock <= Word PROVE until = clock + Lockout
  <2>1. clock + Lockout \in 0 .. Word - 1
    BY <1>2, <1>5, LockFacts
  <2> QED
    BY <2>1, <1>2, LockFacts, ModFacts
<1>6. ASSUME 2 * clock <= Word, Soon(c) PROVE Soon(d)
  BY <1>1, <1>6, ClearWait
<1> HIDE DEF d, until
<1>7. CASE d.lock # 0
  BY <1>1, <1>4, <1>6, <1>7
<1>8. CASE d.lock = 0 /\ d.fails + 1 >= limit
  <2>1. Failed(c, limit, clock) = [Clear EXCEPT !.lock = until]
    BY <1>4, <1>8
  <2>2. [Clear EXCEPT !.lock = until] \in Counter
    BY <1>3, ClearFacts DEF Counter
  <2>3. [Clear EXCEPT !.lock = until].lock = until
    BY ClearFacts DEF Counter
  <2> QED
    BY <2>1, <2>2, <2>3, <1>2, <1>3, <1>5, LockFacts DEF Soon
<1>9. CASE d.lock = 0 /\ ~(d.fails + 1 >= limit)
  <2> DEFINE f == [fails |-> d.fails + 1, open |-> TRUE,
                   start |-> IF d.open THEN d.start ELSE clock, lock |-> 0]
  <2>1. Failed(c, limit, clock) = f
    BY <1>4, <1>9
  <2>2. d.fails \in Nat /\ d.start \in Time
    BY <1>1 DEF Counter
  <2>3. f \in Counter /\ f.lock = 0
    BY <2>2, WordFacts DEF Counter
  <2> QED
    BY <2>1, <2>3, <1>2, LockFacts DEF Soon
<1> QED
  BY <1>7, <1>8, <1>9

\* The two counters of a call.
LEMMA OwnFacts ==
    ASSUME AuthInv, NEW k \in Client
    PROVE  /\ Own(k) \in Counter /\ Overall \in Counter
           /\ ~aged => /\ Soon(Own(k)) /\ Soon(Overall)
                       /\ Wait(Overall) <= Wait(global)
                       /\ \/ Wait(Own(k)) = 0
                          \/ /\ clients[SlotOf(k, clock)].key = k
                             /\ Wait(Own(k)) <= Wait(clients[SlotOf(k, clock)].counter)
<1> DEFINE s == SlotOf(k, clock)
           b == Sought(k, clock)
<1>1. AuthTypeOK /\ Young /\ clock \in Time /\ global \in Counter
  BY DEF AuthInv, AuthTypeOK
<1>2. /\ s \in Slot /\ b \in [Slot -> Entry]
      /\ \/ clients[s].key = k /\ b[s].counter = clients[s].counter
         \/ b[s].counter = Clear
  BY <1>1, SoughtFacts
<1>3. b[s].counter \in Counter /\ clients[s].counter \in Counter
  BY <1>1, <1>2 DEF AuthTypeOK, Entry
<1>4. Own(k) = Normal(b[s].counter, clock) /\ Overall = Normal(global, clock)
  BY DEF Own, Overall
<1> HIDE DEF s, b
<1>5. Own(k) \in Counter /\ Overall \in Counter
  BY <1>1, <1>3, <1>4, NormalFacts
<1>6. ASSUME ~aged
      PROVE  /\ Soon(Own(k)) /\ Soon(Overall) /\ Wait(Overall) <= Wait(global)
             /\ \/ Wait(Own(k)) = 0
                \/ clients[s].key = k /\ Wait(Own(k)) <= Wait(clients[s].counter)
  <2>1. 2 * clock <= Word /\ Soon(global) /\ Soon(clients[s].counter)
    BY <1>1, <1>2, <1>6 DEF Young
  <2>2. Soon(Overall) /\ Wait(Overall) <= Wait(global)
    BY <2>1, <1>1, <1>4, NormalWait
  <2>3. CASE clients[s].key = k /\ b[s].counter = clients[s].counter
    BY <2>1, <2>2, <2>3, <1>1, <1>3, <1>4, NormalWait
  <2>4. CASE b[s].counter = Clear
    <3>1. Own(k) = Clear
      BY <2>4, <1>4, NormalFacts, ClearFacts
    <3> QED
      BY <3>1, <2>1, <2>2, <1>1, ClearWait
  <2> QED
    BY <2>3, <2>4, <1>2
<1> QED
  BY <1>5, <1>6 DEF s

LEMMA LongestFacts ==
    ASSUME clock \in Time, NEW c \in Counter, NEW g \in Counter
    PROVE  RetryAfter(c, g) \in Nat /\ Wait(c) <= RetryAfter(c, g) /\ Wait(g) <= RetryAfter(c, g)
<1>1. Wait(c) \in Nat /\ Wait(g) \in Nat
  BY WaitFacts
<1> QED
  BY <1>1 DEF RetryAfter, Longest

\* A call that counts, and tells its client how long both counters demand.
LEMMA Counting ==
    ASSUME AuthInv, NEW k \in Client, NEW c \in Counter, NEW g \in Counter,
           Counters(k, c, g), clock' = clock, aged' = aged,
           told' \in [Client -> Answer],
           ~aged => Soon(c) /\ Soon(g),
           told'[k].due => told'[k].wait = RetryAfter(c, g),
           ~aged => \A j \in Client \ {k} : told'[j].due =>
                        told'[j] = told[j] /\ Wait(g) <= Wait(global)
    PROVE  AuthInv'
<1> DEFINE s == SlotOf(k, clock)
           b == Sought(k, clock)
<1>1. AuthTypeOK /\ OneBucket /\ Young /\ Enough /\ clock \in Time
  BY DEF AuthInv, AuthTypeOK
<1>2. /\ s \in Slot /\ b \in [Slot -> Entry] /\ b[s].key = k
      /\ \A i \in Slot \ {s} : /\ b[i].key = clients[i].key
                               /\ b[i].counter \in {clients[i].counter, Clear}
      /\ clients[s].key = k \/ Held(k) = {}
  BY <1>1, SoughtFacts
<1>3. clients' = [b EXCEPT ![s].counter = c] /\ global' = g
  BY DEF Counters
<1> HIDE DEF s, b
<1>4. /\ clients' \in [Slot -> Entry]
      /\ clients'[s].key = k /\ clients'[s].counter = c
      /\ \A i \in Slot \ {s} : clients'[i] = b[i]
  <2>1. b[s] \in Entry
    BY <1>2
  <2>2. clients' = [b EXCEPT ![s] = [b[s] EXCEPT !.counter = c]]
    BY <1>3
  <2>3. [b[s] EXCEPT !.counter = c] \in Entry
    BY <2>1 DEF Entry
  <2>4. clients'[s] = [b[s] EXCEPT !.counter = c]
    BY <2>2, <1>2
  <2>5. clients'[s].key = k /\ clients'[s].counter = c
    BY <2>1, <2>4, <1>2 DEF Entry
  <2> QED
    BY <2>2, <2>3, <2>5, <1>2
<1>5. \A i \in Slot \ {s} : /\ clients'[i].key = clients[i].key
                            /\ clients'[i].counter \in {clients[i].counter, Clear}
  BY <1>2, <1>4
<1>6. AuthTypeOK'
  BY <1>1, <1>3, <1>4 DEF AuthTypeOK
<1>7. \A i \in Slot \ {s} : clients[i].key # k
  <2>1. SUFFICES ASSUME NEW i \in Slot \ {s}, clients[i].key = k PROVE FALSE
    OBVIOUS
  <2>2. i \in Held(k)
    BY <2>1 DEF Held
  <2>3. clients[s].key = k /\ k # NoClient
    BY <2>2, <1>2, LockFacts
  <2> QED
    BY <2>1, <2>3, <1>1, <1>2 DEF OneBucket
<1>8. OneBucket'
  <2>1. SUFFICES ASSUME NEW i \in Slot, NEW j \in Slot,
                        clients'[i].key = clients'[j].key, clients'[i].key # NoClient
                 PROVE  i = j
    BY DEF OneBucket
  <2>2. CASE i = s \/ j = s
    BY <2>1, <2>2, <1>4, <1>5, <1>7
  <2>3. CASE i # s /\ j # s
    <3>1. clients[i].key = clients[j].key /\ clients[i].key # NoClient
      BY <2>1, <2>3, <1>5
    <3> QED
      BY <3>1, <1>1 DEF OneBucket
  <2> QED
    BY <2>2, <2>3
<1>9. Young'
  <2>1. SUFFICES ASSUME ~aged
                 PROVE  /\ 2 * clock <= Word /\ Soon(g)
                        /\ \A i \in Slot : Soon(clients'[i].counter)
    BY <1>3 DEF Young, Soon
  <2>2. \A i \in Slot : Soon(clients'[i].counter)
    <3>1. SUFFICES ASSUME NEW i \in Slot PROVE Soon(clients'[i].counter)
      OBVIOUS
    <3>2. CASE i = s
      BY <2>1, <3>2, <1>4
    <3>3. CASE i # s
      BY <2>1, <3>1, <3>3, <1>1, <1>5, ClearWait DEF Young
    <3> QED
      BY <3>2, <3>3
  <2> QED
    BY <2>1, <2>2, <1>1 DEF Young
<1>10. Enough'
  <2>1. SUFFICES ASSUME ~aged, NEW j \in Client, told'[j].due
                 PROVE  /\ Wait(g) <= told'[j].wait
                        /\ \A i \in Slot : clients'[i].key = j
                              => Wait(clients'[i].counter) <= told'[j].wait
    BY <1>3 DEF Enough, Wait, Remaining
  <2>2. CASE j = k
    <3>1. Wait(c) <= told'[k].wait /\ Wait(g) <= told'[k].wait
      BY <2>1, <2>2, <1>1, LongestFacts
    <3>2. \A i \in Slot : clients'[i].key = k => i = s
      BY <1>5, <1>7
    <3> QED
      BY <3>1, <3>2, <2>2, <1>4
  <2>3. CASE j # k
    <3>1. told'[j] = told[j] /\ Wait(g) <= Wait(global)
      BY <2>1, <2>3
    <3>2. Wait(global) <= told[j].wait
          /\ \A i \in Slot : clients[i].key = j => Wait(clients[i].counter) <= told[j].wait
      BY <2>1, <3>1, <1>1 DEF Enough
    <3>3. told[j].wait \in Nat /\ Wait(g) \in Nat /\ Wait(global) \in Nat
      BY <1>1, WaitFacts DEF AuthTypeOK, Answer
    <3>4. Wait(g) <= told[j].wait
      BY <3>1, <3>2, <3>3
    <3>5. ASSUME NEW i \in Slot, clients'[i].key = j
          PROVE  Wait(clients'[i].counter) <= told[j].wait
      <4>1. i # s
        BY <3>5, <2>3, <1>4
      <4>2. clients[i].key = j /\ clients'[i].counter \in {clients[i].counter, Clear}
        BY <3>5, <4>1, <1>5
      <4>3. Wait(Clear) = 0
        BY <2>1, <1>1, ClearWait DEF Young
      <4> QED
        BY <4>2, <4>3, <3>2, <3>3
    <3> QED
      BY <3>1, <3>4, <3>5
  <2> QED
    BY <2>2, <2>3
<1> QED
  BY <1>6, <1>8, <1>9, <1>10 DEF AuthInv

LEMMA Judging ==
    ASSUME AuthInv, NEW k \in Client, NEW id \in Guest,
           Refused(k, id) \/ Asked(k, id) \/ Right(k, id)
    PROVE  AuthInv'
<1>1. PICK c \in {Own(k), Clear}, throttled \in BOOLEAN :
          /\ Counters(k, c, Overall) /\ Answered(k, c, Overall, throttled)
          /\ clock' = clock /\ aged' = aged
  BY DEF Refused, Asked, Right
<1>2. /\ Own(k) \in Counter /\ Overall \in Counter
      /\ ~aged => Soon(Own(k)) /\ Soon(Overall) /\ Wait(Overall) <= Wait(global)
  BY OwnFacts
<1>3. clock \in Time /\ told \in [Client -> Answer]
  BY DEF AuthInv, AuthTypeOK
<1>4. c \in Counter /\ (~aged => Soon(c))
  BY <1>1, <1>2, <1>3, ClearFacts, ClearWait
<1>5. RetryAfter(c, Overall) \in Nat
  BY <1>2, <1>3, <1>4, LongestFacts
<1>6. told' = [told EXCEPT ![k] = [due |-> throttled, wait |-> RetryAfter(c, Overall)]]
  BY <1>1 DEF Answered
<1>7. /\ told' \in [Client -> Answer] /\ told'[k].wait = RetryAfter(c, Overall)
      /\ \A j \in Client \ {k} : told'[j] = told[j]
  BY <1>3, <1>5, <1>6 DEF Answer
<1> QED
  BY <1>1, <1>2, <1>4, <1>7, Counting

LEMMA Failing ==
    ASSUME AuthInv, NEW k \in Client, NEW id \in Guest, Wrong(k, id)
    PROVE  AuthInv'
<1> DEFINE c == Failed(Own(k), ClientLimit, clock)
           g == Failed(Overall, GlobalLimit, clock)
<1>1. /\ Own(k) \in Counter /\ Overall \in Counter
      /\ ~aged => Soon(Own(k)) /\ Soon(Overall)
  BY OwnFacts
<1>2. clock \in Time /\ told \in [Client -> Answer] /\ (~aged => 2 * clock <= Word)
  BY DEF AuthInv, AuthTypeOK, Young
<1>3. c \in Counter /\ (~aged => Soon(c))
  BY <1>1, <1>2, LockFacts, FailedFacts
<1>4. g \in Counter /\ (~aged => Soon(g))
  BY <1>1, <1>2, LockFacts, FailedFacts
<1>5. /\ Counters(k, c, g) /\ clock' = clock /\ aged' = aged
      /\ told' = [j \in Client |->
                     IF j = k THEN [due |-> c.fails = 0 \/ g.fails = 0, wait |-> RetryAfter(c, g)]
                     ELSE Nothing]
  BY DEF Wrong
<1> HIDE DEF c, g
<1>6. RetryAfter(c, g) \in Nat
  BY <1>2, <1>3, <1>4, LongestFacts
<1>7. Nothing \in Answer /\ Nothing.due = FALSE
  BY DEF Nothing, Answer
<1>8. [due |-> c.fails = 0 \/ g.fails = 0, wait |-> RetryAfter(c, g)] \in Answer
  BY <1>6 DEF Answer
<1>9. /\ told' \in [Client -> Answer] /\ told'[k].wait = RetryAfter(c, g)
      /\ \A j \in Client \ {k} : told'[j].due = FALSE
  BY <1>5, <1>7, <1>8
<1> QED
  BY <1>3, <1>4, <1>5, <1>9, Counting

LEMMA AuthBegins ==
    ASSUME clock = 0, AuthInit PROVE AuthInv
<1>1. /\ aged = FALSE /\ clients = [i \in Slot |-> Free] /\ global = Clear
      /\ told = [k \in Client |-> Nothing]
  BY DEF AuthInit
<1>2. clock \in Time
  BY WordFacts
<1>3. Free \in Entry /\ Free.counter = Clear /\ Free.key = NoClient
  BY ClearFacts, WordFacts DEF Free, Entry
<1>4. Nothing \in Answer /\ Nothing.due = FALSE
  BY DEF Nothing, Answer
<1>5. AuthTypeOK
  BY <1>1, <1>2, <1>3, <1>4, ClearFacts DEF AuthTypeOK
<1>6. OneBucket
  BY <1>1, <1>3 DEF OneBucket
<1>7. Young
  BY <1>1, <1>2, <1>3, ClearWait, LockFacts DEF Young
<1>8. Enough
  BY <1>1, <1>4 DEF Enough
<1> QED
  BY <1>5, <1>6, <1>7, <1>8 DEF AuthInv

\* A millisecond less to wait.
LEMMA TickWait ==
    ASSUME clock \in Time, clock' = clock + 1, 2 * (clock + 1) <= Word,
           NEW c \in Counter, Soon(c)
    PROVE  /\ Wait(c) \in Nat
           /\ Remaining(clock', c.lock) = IF Wait(c) > 0 THEN Wait(c) - 1 ELSE 0
<1> DEFINE x == c.lock - (clock + 1)
<1>1. c.lock \in 0 .. Word - 1 /\ clock \in 0 .. Word - 1
  BY WordFacts DEF Counter
<1>2. Wait(c) \in Nat /\ Wait(c) = IF c.lock > clock THEN c.lock - clock ELSE 0
  <2>1. 2 * clock <= Word
    BY <1>1, LockFacts
  <2> QED
    BY <2>1, WaitFacts
<1>3. x \in Int
  BY <1>1
<1>4. /\ x \in 0 .. Word - 1 => x % Word = x
      /\ x + Word \in 0 .. Word - 1 => x % Word = x + Word
  BY <1>3, ModFacts
<1>5. Remaining(clock', c.lock) = IF 2 * (x % Word) < Word THEN x % Word ELSE 0
  BY DEF Remaining
<1>6. c.lock <= clock + Lockout
  BY DEF Soon
<1>7. CASE c.lock > clock
  <2>1. x % Word = c.lock - (clock + 1)
    BY <1>1, <1>4, <1>7, LockFacts
  <2> QED
    BY <2>1, <1>1, <1>2, <1>5, <1>6, <1>7, LockFacts
<1>8. CASE ~(c.lock > clock)
  <2>1. x % Word = c.lock - (clock + 1) + Word
    BY <1>1, <1>4, <1>8, LockFacts
  <2> QED
    BY <2>1, <1>1, <1>2, <1>5, <1>8, LockFacts
<1> QED
  BY <1>7, <1>8

LEMMA AuthAges ==
    ASSUME AuthInv, AuthElapse
    PROVE  AuthInv'
<1>1. /\ AuthTypeOK /\ OneBucket /\ Young /\ Enough /\ clock \in Time
      /\ told \in [Client -> Answer] /\ global \in Counter
      /\ \A i \in Slot : clients[i].counter \in Counter
  BY DEF AuthInv, AuthTypeOK, Entry
<1>2. /\ clock' = (clock + 1) % Word /\ aged' = (aged \/ 2 * clock' > Word)
      /\ told' = [k \in Client |-> [told[k] EXCEPT !.wait = IF @ > 0 THEN @ - 1 ELSE 0]]
      /\ clients' = clients /\ global' = global
  BY DEF AuthElapse, Ticks
<1>3. clock' \in Time
  BY <1>1, <1>2, LockFacts, ModFacts, WordFacts
<1>4. ASSUME NEW k \in Client
      PROVE  /\ told'[k] \in Answer /\ told'[k].due = told[k].due
             /\ told'[k].wait = IF told[k].wait > 0 THEN told[k].wait - 1 ELSE 0
  <2>1. told[k] \in Answer /\ told[k].wait \in Nat
    BY <1>1 DEF Answer
  <2>2. told'[k] = [told[k] EXCEPT !.wait = IF told[k].wait > 0 THEN told[k].wait - 1 ELSE 0]
    BY <1>2
  <2>3. (IF told[k].wait > 0 THEN told[k].wait - 1 ELSE 0) \in Nat
    BY <2>1
  <2> QED
    BY <2>1, <2>2, <2>3 DEF Answer
<1>5. told' \in [Client -> Answer]
  BY <1>2, <1>4
<1>6. AuthTypeOK'
  BY <1>1, <1>2, <1>3, <1>5 DEF AuthTypeOK
<1>7. OneBucket'
  BY <1>1, <1>2 DEF OneBucket
<1>8. ASSUME ~aged'
      PROVE  /\ ~aged /\ clock' = clock + 1 /\ 2 * (clock + 1) <= Word
             /\ Soon(global) /\ \A i \in Slot : Soon(clients[i].counter)
  <2>1. ~aged /\ ~(2 * clock' > Word)
    BY <1>2, <1>8
  <2>2. 2 * clock <= Word /\ Soon(global) /\ \A i \in Slot : Soon(clients[i].counter)
    BY <2>1, <1>1 DEF Young
  <2>3. clock \in Nat /\ clock + 1 \in 0 .. Word - 1
    BY <2>2, <1>1, LockFacts, WordFacts
  <2>4. clock' = clock + 1
    BY <2>3, <1>2, ModFacts
  <2> QED
    BY <2>1, <2>2, <2>3, <2>4, LockFacts
<1>9. ASSUME NEW c \in Counter, Soon(c), clock' = clock + 1 PROVE c.lock <= clock' + Lockout
  BY <1>1, <1>9, LockFacts, WordFacts DEF Soon, Counter
<1>10. Young'
  <2>1. SUFFICES ASSUME ~aged'
                 PROVE  /\ 2 * clock' <= Word /\ global.lock <= clock' + Lockout
                        /\ \A i \in Slot : clients[i].counter.lock <= clock' + Lockout
    BY <1>2 DEF Young, Soon
  <2> QED
    BY <2>1, <1>1, <1>8, <1>9
<1>11. Enough'
  <2>1. SUFFICES ASSUME ~aged', NEW k \in Client, told'[k].due
                 PROVE  /\ Remaining(clock', global.lock) <= told'[k].wait
                        /\ \A i \in Slot : clients[i].key = k
                              => Remaining(clock', clients[i].counter.lock) <= told'[k].wait
    BY <1>2 DEF Enough, Wait
  <2>2. Wait(global) <= told[k].wait
        /\ \A i \in Slot : clients[i].key = k => Wait(clients[i].counter) <= told[k].wait
    BY <2>1, <1>1, <1>4, <1>8 DEF Enough
  <2>3. told[k].wait \in Nat
    BY <1>1 DEF Answer
  <2>4. ASSUME NEW c \in Counter, Soon(c), Wait(c) <= told[k].wait
        PROVE  Remaining(clock', c.lock) <= told'[k].wait
    <3>1. /\ Wait(c) \in Nat
          /\ Remaining(clock', c.lock) = IF Wait(c) > 0 THEN Wait(c) - 1 ELSE 0
      BY <2>1, <2>4, <1>1, <1>8, TickWait
    <3> QED
      BY <3>1, <2>3, <2>4, <1>4
  <2> QED
    BY <2>1, <2>2, <2>4, <1>1, <1>8
<1> QED
  BY <1>6, <1>7, <1>10, <1>11 DEF AuthInv

LEMMA AuthRests ==
    ASSUME AuthInv, clock' = clock, clients' = clients, global' = global, told' = told, aged' = aged
    PROVE  AuthInv'
BY DEF AuthInv, AuthTypeOK, OneBucket, Young, Enough, Soon, Wait, Remaining

THEOREM AuthInvariant == AuthSpec => []AuthInv
<1>1. clock = 0 /\ AuthInit => AuthInv
  BY AuthBegins
<1>2. ASSUME AuthInv, [AuthNext]_<<clock, authVars>>
      PROVE  AuthInv'
  <2>1. ASSUME NEW k \in Client, NEW id \in Guest,
               Refused(k, id) \/ Asked(k, id) \/ Right(k, id) \/ Wrong(k, id)
        PROVE  AuthInv'
    BY <1>2, <2>1, Judging, Failing
  <2>2. ASSUME NEW id \in Guest, KnownComes(id) \/ Leaves(id)
        PROVE  AuthInv'
    BY <1>2, <2>2, AuthRests DEF KnownComes, Leaves
  <2>3. CASE RestoreSession
    BY <1>2, <2>3, AuthRests DEF RestoreSession
  <2>4. CASE AuthElapse
    BY <1>2, <2>4, AuthAges
  <2>5. CASE UNCHANGED <<clock, authVars>>
    BY <1>2, <2>5, AuthRests DEF authVars
  <2> QED
    BY <1>2, <2>1, <2>2, <2>3, <2>4, <2>5 DEF AuthNext
<1> QED
  BY <1>1, <1>2, PTL DEF AuthSpec

LEMMA RetryFollows ==
    ASSUME AuthInv, NEW k \in Client, NEW id \in Guest,
           ~aged', told[k].due, told[k].wait = 0
    PROVE  ~Refused(k, id)
<1>1. SUFFICES ASSUME Refused(k, id) PROVE FALSE
  OBVIOUS
<1>2. ~aged /\ (Wait(Own(k)) > 0 \/ Wait(Overall) > 0)
  BY <1>1 DEF Refused, Throttled
<1>3. /\ Own(k) \in Counter /\ Overall \in Counter
      /\ Wait(Overall) <= Wait(global)
      /\ \/ Wait(Own(k)) = 0
         \/ /\ clients[SlotOf(k, clock)].key = k
            /\ Wait(Own(k)) <= Wait(clients[SlotOf(k, clock)].counter)
  BY <1>2, OwnFacts
<1>4. SlotOf(k, clock) \in Slot /\ clock \in Time /\ global \in Counter
      /\ clients[SlotOf(k, clock)].counter \in Counter
  BY SlotFacts DEF AuthInv, AuthTypeOK, Entry
<1>5. /\ Wait(global) <= 0
      /\ clients[SlotOf(k, clock)].key = k => Wait(clients[SlotOf(k, clock)].counter) <= 0
  BY <1>2, <1>4 DEF AuthInv, Enough
<1>6. /\ Wait(Own(k)) \in Nat /\ Wait(Overall) \in Nat /\ Wait(global) \in Nat
      /\ Wait(clients[SlotOf(k, clock)].counter) \in Nat
  BY <1>3, <1>4, WaitFacts
<1> QED
  BY <1>2, <1>3, <1>5, <1>6

\* A client that waits as long as it was told is heard when nobody failed meanwhile, until the
\* clock has run half its range (haAuthorizeIdentity, retry_ms).
THEOREM RetrySuffices == AuthSpec => RetryIsEnough
<1>1. AuthInv /\ [AuthNext]_<<clock, authVars>>
      => [ \A k \in Client, id \in Guest :
              ~aged' /\ told[k].due /\ told[k].wait = 0 => ~Refused(k, id) ]_<<clock, authVars>>
  BY RetryFollows
<1> QED
  BY <1>1, AuthInvariant, PTL DEF AuthSpec, RetryIsEnough

-----------------------------------------------------------------------------
(* How many wrong codes an interval as long as a window holds. *)

Failure == [age : 0 .. Window - 1, nr : Nat]

Younger(r, age) == {f \in r : f.age < age}

\* A counter that is clear: what is left of an earlier window lost its first failure.
Shut(r, c, limit) ==
    /\ c.fails = 0
    /\ Cardinality(r) <= limit - 2
    /\ \A f \in r : f.age > 0

\* One whose window is open: beside such a rest it counted them, the first when it began.
Counted(now, r, c, limit) ==
    /\ c.fails \in 1 .. limit - 1
    /\ Cardinality(r) <= limit - 2 + c.fails
    /\ Cardinality(Younger(r, Since(now, c.start))) <= c.fails - 1
    /\ \A f \in r : /\ f.age > Since(now, c.start) - Window
                    /\ f.age = 0 => f.nr < c.fails

\* One that is locked: all are as old as the lock-out is.
Banned(now, r, c) ==
    \A f \in r : Since(c.lock, now) <= Lockout /\ f.age >= Lockout - Since(c.lock, now)

\* The failures r are those of counter c.
Fits(now, r, c, limit) ==
    /\ r \in SUBSET Failure /\ IsFiniteSet(r)
    /\ Cardinality(r) <= 2 * limit - 2
    /\ c.lock # 0 => Banned(now, r, c)
    /\ c.lock = 0 /\ c.open => Counted(now, r, c, limit)
    /\ c.lock = 0 /\ ~c.open => Shut(r, c, limit)

GuessInv ==
    /\ recent \in [Client \cup {All} -> SUBSET Failure]
    /\ Fits(clock, recent[All], global, GlobalLimit)
    /\ \A i \in Slot : clients[i].key # NoClient
           => Fits(clock, recent[clients[i].key], clients[i].counter, ClientLimit)
    /\ \A k \in Client : IsFiniteSet(recent[k]) /\ Cardinality(recent[k]) <= 2 * ClientLimit - 2

-----------------------------------------------------------------------------
LEMMA GuessFacts ==
    /\ Window \in Nat /\ Window > 0 /\ Lockout \in Nat /\ Window <= Lockout
    /\ 2 * Lockout < Word /\ 2 * Window < Word /\ Word \in Nat
    /\ ClientLimit \in Nat /\ ClientLimit >= 2 /\ GlobalLimit \in Nat /\ GlobalLimit >= 2
    /\ NoClient \notin Client /\ All \notin Client
BY AuthAssumption, WordFacts

\* Without failures a clear counter fits.
LEMMA NoneFits ==
    ASSUME NEW now, NEW limit \in Nat, limit >= 2
    PROVE  Fits(now, {}, Clear, limit)
<1>1. IsFiniteSet({}) /\ Cardinality({}) = 0
  BY FS_EmptySet
<1>2. Shut({}, Clear, limit)
  BY <1>1, ClearFacts DEF Shut
<1> QED
  BY <1>1, <1>2, ClearFacts DEF Fits

LEMMA SizeFacts ==
    ASSUME NEW now, NEW r, NEW c, NEW limit, Fits(now, r, c, limit)
    PROVE  /\ Cardinality(r) \in Nat
           /\ \A f \in r : f.age \in Nat /\ f.age < Window /\ f.nr \in Nat
           /\ \A a : /\ IsFiniteSet(Younger(r, a)) /\ Cardinality(Younger(r, a)) \in Nat
                     /\ Cardinality(Younger(r, a)) <= Cardinality(r)
<1>1. r \in SUBSET Failure /\ IsFiniteSet(r)
  BY DEF Fits
<1>2. \A f \in r : f.age \in Nat /\ f.age < Window /\ f.nr \in Nat
  BY <1>1, GuessFacts DEF Failure
<1>3. Cardinality(r) \in Nat
  BY <1>1, FS_CardinalityType
<1>4. ASSUME NEW a
      PROVE  /\ IsFiniteSet(Younger(r, a)) /\ Cardinality(Younger(r, a)) \in Nat
             /\ Cardinality(Younger(r, a)) <= Cardinality(r)
  <2>1. Younger(r, a) \in SUBSET r
    BY DEF Younger
  <2> QED
    BY <2>1, <1>1, FS_Subset, FS_CardinalityType
<1> QED
  BY <1>2, <1>3, <1>4

\* A lock-out or a window that is over leaves fewer than would start the next lock-out.
LEMMA NormalFits ==
    ASSUME NEW now \in Time, NEW c \in Counter, NEW r, NEW limit \in Nat, limit >= 2,
           Fits(now, r, c, limit)
    PROVE  Fits(now, r, Normal(c, now), limit)
<1>1. c.start \in Time /\ c.lock \in Time /\ c.fails \in Nat /\ c.open \in BOOLEAN
  BY DEF Counter
<1>2. r \in SUBSET Failure /\ IsFiniteSet(r) /\ Cardinality(r) \in Nat
  BY SizeFacts DEF Fits
<1>3. \A f \in r : f.age \in Nat /\ f.age < Window
  BY SizeFacts
<1>4. CASE c.lock # 0 /\ Remaining(now, c.lock) > 0
  BY <1>4 DEF Normal
<1>5. CASE c.lock # 0 /\ ~(Remaining(now, c.lock) > 0)
  <2> DEFINE a == Since(c.lock, now)
  <2>1. a \in 0 .. Word - 1
    BY <1>1, SinceFacts
  <2>2. Remaining(now, c.lock) = IF 2 * a < Word THEN a ELSE 0
    BY DEF Remaining, Since
  <2>3. \A f \in r : a <= Lockout /\ f.age >= Lockout - a
    BY <1>5 DEF Fits, Banned
  <2> HIDE DEF a
  <2>4. r = {}
    <3>1. SUFFICES ASSUME NEW f \in r PROVE FALSE
      OBVIOUS
    <3>2. a <= Lockout /\ f.age >= Lockout - a /\ f.age \in Nat /\ f.age < Window
      BY <2>3, <1>3
    <3>3. a = 0
      BY <2>1, <2>2, <3>2, <1>5, GuessFacts
    <3> QED
      BY <3>2, <3>3, GuessFacts
  <2>5. Normal(c, now) = Clear
    BY <1>5 DEF Normal
  <2> QED
    BY <2>4, <2>5, NoneFits
<1>6. CASE c.lock = 0 /\ c.open /\ Since(now, c.start) >= Window
  <2> DEFINE s == Since(now, c.start)
  <2>1. s \in 0 .. Word - 1 /\ s >= Window
    BY <1>1, <1>6, SinceFacts
  <2>2. /\ c.fails \in 1 .. limit - 1 /\ Cardinality(Younger(r, s)) <= c.fails - 1
        /\ \A f \in r : f.age > s - Window
    BY <1>6 DEF Fits, Counted
  <2> HIDE DEF s
  <2>3. Younger(r, s) = r
    BY <2>1, <1>3, GuessFacts DEF Younger
  <2>4. Cardinality(r) <= limit - 2
    BY <2>2, <2>3, <1>2
  <2>5. \A f \in r : f.age > 0
    BY <2>1, <2>2, <1>3, GuessFacts
  <2>6. Shut(r, Clear, limit)
    BY <2>4, <2>5, ClearFacts DEF Shut
  <2>7. Normal(c, now) = Clear
    BY <1>6 DEF Normal
  <2>8. Cardinality(r) <= 2 * limit - 2
    BY DEF Fits
  <2> QED
    BY <2>6, <2>7, <2>8, <1>2, ClearFacts DEF Fits
<1>7. CASE c.lock = 0 /\ ~(c.open /\ Since(now, c.start) >= Window)
  BY <1>7 DEF Normal
<1> QED
  BY <1>4, <1>5, <1>6, <1>7

LEMMA NormalTwice ==
    ASSUME NEW now, NEW c
    PROVE  Normal(Normal(c, now), now) = Normal(c, now)
<1>1. CASE Normal(c, now) = c
  BY <1>1
<1>2. CASE Normal(c, now) = Clear
  <2>1. Normal(Clear, now) = Clear
    BY ClearFacts DEF Normal
  <2> QED
    BY <2>1, <1>2
<1> QED
  BY <1>1, <1>2 DEF Normal

\* A counter that does not hold its client back is not locked, and its window is open.
LEMMA Unlocked ==
    ASSUME NEW c \in Counter, clock \in Time, Normal(c, clock) = c, ~(Wait(c) > 0)
    PROVE  c.lock = 0 /\ (c.open => Since(clock, c.start) < Window)
<1>1. c.lock = 0
  <2>1. SUFFICES ASSUME c.lock # 0 PROVE FALSE
    OBVIOUS
  <2>2. Normal(c, clock) = Clear
    BY <2>1 DEF Normal, Wait
  <2> QED
    BY <2>1, <2>2, ClearFacts
<1>2. ASSUME c.open PROVE Since(clock, c.start) < Window
  <2>1. Since(clock, c.start) \in 0 .. Word - 1
    BY SinceFacts DEF Counter
  <2>2. ~(Since(clock, c.start) >= Window)
    BY <1>1, <1>2, ClearFacts DEF Normal
  <2> QED
    BY <2>1, <2>2, GuessFacts
<1> QED
  BY <1>1, <1>2

\* A lock-out that begins now lies a whole lock-out ahead.
LEMMA LockAhead ==
    ASSUME NEW now \in Time
    PROVE  /\ (now + Lockout) % Word \in Time
           /\ Since((now + Lockout) % Word, now) = Lockout
<1> DEFINE x == now + Lockout
           l == x % Word
<1>1. now \in Nat /\ now < Word /\ x \in Nat /\ x < 2 * Word
  BY GuessFacts, WordFacts
<1>2. l = IF x < Word THEN x ELSE x - Word
  <2>1. \A y \in 0 .. 2 * Word - 1 : y % Word = IF y < Word THEN y ELSE y - Word
    BY WordFacts
  <2> QED
    BY <1>1, <2>1, GuessFacts
<1> HIDE DEF l
<1>3. l \in Time
  BY <1>1, <1>2, GuessFacts, WordFacts
<1>4. Since(l, now) = IF l >= now THEN l - now ELSE l - now + Word
  BY <1>3, SinceFacts
<1>5. Since(l, now) = Lockout
  BY <1>1, <1>2, <1>4, GuessFacts
<1> QED
  BY <1>3, <1>5 DEF l

\* A failure more, of a counter that is not locked.
LEMMA FailedFits ==
    ASSUME NEW c \in Counter, NEW r, NEW limit \in Nat, limit >= 2, clock \in Time,
           Normal(c, clock) = c, ~(Wait(c) > 0), Fits(clock, r, c, limit)
    PROVE  Fits(clock, Judged(r, c, Failed(c, limit, clock)), Failed(c, limit, clock), limit)
<1> DEFINE x == [age |-> 0, nr |-> c.fails]
           q == r \cup {x}
           s == Since(clock, c.start)
           until == (clock + Lockout) % Word
           d == Failed(c, limit, clock)
<1>1. c.lock = 0 /\ (c.open => s < Window)
  BY Unlocked
<1>2. c.start \in Time /\ c.fails \in Nat /\ c.open \in BOOLEAN /\ s \in 0 .. Word - 1
  BY SinceFacts DEF Counter
<1>3. r \in SUBSET Failure /\ IsFiniteSet(r) /\ Cardinality(r) \in Nat
      /\ \A f \in r : f.age \in Nat /\ f.age < Window
  BY SizeFacts DEF Fits
<1>4. d = IF c.fails + 1 >= limit THEN [Clear EXCEPT !.lock = until]
          ELSE [fails |-> c.fails + 1, open |-> TRUE,
                start |-> IF c.open THEN c.start ELSE clock, lock |-> 0]
  BY <1>1 DEF Failed
<1>5. x \in Failure /\ x.age = 0 /\ x.nr = c.fails
  BY <1>2, GuessFacts DEF Failure
<1>6. x \notin r
  BY <1>1, <1>2, <1>5 DEF Fits, Counted, Shut
<1> HIDE DEF x, s, until, d
<1>7. q \in SUBSET Failure /\ IsFiniteSet(q) /\ Cardinality(q) = Cardinality(r) + 1
  BY <1>3, <1>5, <1>6, FS_AddElement
<1>8. Cardinality(r) <= limit - 2 + c.fails
  BY <1>1, <1>2, <1>3 DEF Fits, Counted, Shut
<1>9. CASE c.fails + 1 >= limit
  <2>1. d = [fails |-> 0, open |-> FALSE, start |-> 0, lock |-> until]
    BY <1>4, <1>9 DEF Clear
  <2>2. until \in Time /\ Since(until, clock) = Lockout
    BY LockAhead DEF until
  <2>3. CASE until = 0
    <3>1. d = Clear
      BY <2>1, <2>3 DEF Clear
    <3>2. Judged(r, c, d) = {}
      BY <3>1 DEF Judged
    <3> QED
      BY <3>1, <3>2, NoneFits DEF d
  <2>4. CASE until # 0
    <3>1. d # Clear /\ d.lock = until
      BY <2>1, <2>4, ClearFacts
    <3>2. Judged(r, c, d) = q
      BY <3>1 DEF Judged, x
    <3>3. c.fails <= limit - 1
      BY <1>1, <1>2 DEF Fits, Counted, Shut
    <3>4. Cardinality(q) <= 2 * limit - 2
      BY <3>3, <1>2, <1>3, <1>7, <1>8
    <3>5. Banned(clock, q, d)
      <4>1. SUFFICES ASSUME NEW f \in q
                     PROVE  Lockout <= Lockout /\ f.age >= Lockout - Lockout
        BY <2>2, <3>1 DEF Banned
      <4>2. f.age \in Nat
        BY <4>1, <1>3, <1>5
      <4> QED
        BY <4>2, GuessFacts
    <3> QED
      BY <3>1, <3>2, <3>4, <3>5, <2>4, <1>7 DEF Fits, d
  <2> QED
    BY <2>3, <2>4
<1>10. CASE ~(c.fails + 1 >= limit)
  <2> DEFINE t == IF c.open THEN c.start ELSE clock
             u == Since(clock, t)
  <2>1. d.fails = c.fails + 1 /\ d.open = TRUE /\ d.start = t /\ d.lock = 0
    BY <1>4, <1>10
  <2>2. d # Clear
    BY <2>1, <1>2, ClearFacts
  <2>3. Judged(r, c, d) = q
    BY <2>2 DEF Judged, x
  <2>4. u \in Nat /\ u < Window /\ (c.open => u = s) /\ (~c.open => u = 0)
    <3>1. CASE c.open
      BY <3>1, <1>1, <1>2, WordFacts DEF s
    <3>2. CASE ~c.open
      <4>1. Since(clock, clock) = 0
        BY SinceFacts, WordFacts
      <4> QED
        BY <3>2, <4>1, GuessFacts
    <3> QED
      BY <3>1, <3>2
  <2> HIDE DEF t, u
  <2>5. Cardinality(Younger(q, u)) <= c.fails
    <3>1. CASE u = 0
      <4>1. Younger(q, 0) = {}
        BY <1>3, <1>5 DEF Younger
      <4>2. Cardinality({}) = 0
        BY FS_EmptySet
      <4>3. Cardinality(Younger(q, u)) = 0
        BY <3>1, <4>1, <4>2
      <4> QED
        BY <4>3, <1>2
    <3>2. CASE u # 0
      <4>1. c.open /\ u = s
        BY <3>2, <2>4, <1>2
      <4>2. Cardinality(Younger(r, s)) <= c.fails - 1
        BY <4>1, <1>1 DEF Fits, Counted, s
      <4>3. IsFiniteSet(Younger(r, s)) /\ Cardinality(Younger(r, s)) \in Nat
        BY SizeFacts
      <4>4. Younger(q, s) = Younger(r, s) \cup {x}
        BY <4>1, <3>2, <2>4, <1>5 DEF Younger
      <4>5. Cardinality(Younger(r, s) \cup {x}) <= Cardinality(Younger(r, s)) + 1
        <5> DEFINE Y == Younger(r, s)
        <5>1. IsFiniteSet(Y) /\ Cardinality(Y) \in Nat
          BY <4>3
        <5> HIDE DEF Y
        <5>2. Cardinality(Y \cup {x}) = IF x \in Y THEN Cardinality(Y) ELSE Cardinality(Y) + 1
          BY <5>1, FS_AddElement
        <5>3. Cardinality(Y \cup {x}) <= Cardinality(Y) + 1
          BY <5>1, <5>2
        <5> QED
          BY <5>3 DEF Y
      <4>6. Cardinality(Younger(r, s) \cup {x}) \in Nat
        BY <4>3, FS_AddElement, FS_CardinalityType
      <4> QED
        <5>1. Cardinality(Younger(q, s)) <= Cardinality(Younger(r, s)) + 1
          BY <4>4, <4>5
        <5>2. Cardinality(Younger(q, s)) \in Nat
          BY <4>4, <4>6
        <5>3. Cardinality(Younger(q, s)) <= c.fails
          BY <5>1, <5>2, <4>2, <4>3, <1>2
        <5> QED
          BY <5>3, <4>1
    <3> QED
      BY <3>1, <3>2
  <2>6. ASSUME NEW f \in q
        PROVE  f.age > u - Window /\ (f.age = 0 => f.nr < c.fails + 1)
    <3>1. f.age \in Nat
      BY <2>6, <1>3, <1>5
    <3>2. f.age > u - Window
      BY <3>1, <2>4, GuessFacts
    <3>3. CASE f = x
      BY <3>2, <3>3, <1>2, <1>5
    <3>4. CASE f \in r
      <4>1. f.age = 0 => f.nr < c.fails
        BY <3>4, <1>1, <1>2 DEF Fits, Counted, Shut
      <4>2. f.nr \in Nat
        BY <3>4, SizeFacts
      <4> QED
        BY <3>2, <4>1, <4>2, <1>2
    <3> QED
      BY <3>3, <3>4, <2>6
  <2>7. Cardinality(q) <= limit - 2 + d.fails /\ d.fails \in 1 .. limit - 1
    BY <2>1, <1>2, <1>3, <1>7, <1>8, <1>10
  <2>8. Cardinality(q) <= 2 * limit - 2
    BY <2>7, <1>3, <1>7
  <2>9. Counted(clock, q, d, limit)
    <3>1. Since(clock, d.start) = u
      BY <2>1 DEF u
    <3>2. Cardinality(Younger(q, u)) <= d.fails - 1
      BY <2>1, <2>5, <1>2
    <3> QED
      BY <3>1, <3>2, <2>1, <2>6, <2>7 DEF Counted
  <2> QED
    BY <2>1, <2>3, <2>8, <2>9, <1>7 DEF Fits, d
<1> QED
  BY <1>9, <1>10

\* A millisecond later: some are forgotten, the others are older.
LEMMA OlderFacts ==
    ASSUME NEW r \in SUBSET Failure, IsFiniteSet(r)
    PROVE  /\ Older(r) \in SUBSET Failure /\ IsFiniteSet(Older(r))
           /\ Cardinality(Older(r)) \in Nat /\ Cardinality(Older(r)) <= Cardinality(r)
           /\ \A g \in Older(r) : \E f \in r : g.age = f.age + 1 /\ g.nr = f.nr
<1> DEFINE S == {g \in r : g.age + 1 < Window}
           older == [f \in S |-> [f EXCEPT !.age = @ + 1]]
<1>1. S \in SUBSET r /\ S \in SUBSET Failure
  OBVIOUS
<1>2. IsFiniteSet(S) /\ Cardinality(S) <= Cardinality(r)
  BY <1>1, FS_Subset
<1>3. Older(r) = {[f EXCEPT !.age = @ + 1] : f \in S}
  BY DEF Older
<1>4. ASSUME NEW f \in S
      PROVE  /\ [f EXCEPT !.age = @ + 1] \in Failure
             /\ [f EXCEPT !.age = @ + 1].age = f.age + 1
             /\ [f EXCEPT !.age = @ + 1].nr = f.nr
  <2>1. f \in [age : 0 .. Window - 1, nr : Nat] /\ f.age + 1 < Window
    BY DEF Failure
  <2>2. f.age + 1 \in 0 .. Window - 1
    BY <2>1, GuessFacts
  <2> QED
    BY <2>1, <2>2 DEF Failure
<1>5. Older(r) \in SUBSET Failure
  BY <1>3, <1>4
<1>6. \A g \in Older(r) : \E f \in r : g.age = f.age + 1 /\ g.nr = f.nr
  BY <1>3, <1>4
<1>7. older \in Surjection(S, Older(r))
  BY <1>3 DEF Surjection
<1> HIDE DEF S, older
<1>8. IsFiniteSet(Older(r)) /\ Cardinality(Older(r)) <= Cardinality(S)
  BY <1>2, <1>7, FS_Surjection
<1>9. /\ Cardinality(Older(r)) \in Nat /\ Cardinality(S) \in Nat
      /\ Cardinality(r) \in Nat
  BY <1>2, <1>8, FS_CardinalityType
<1> QED
  BY <1>2, <1>5, <1>6, <1>8, <1>9

\* A reading grows older by the millisecond and a deadline comes nearer, until they wrap.
LEMMA Passing ==
    ASSUME NEW now \in Time, NEW next, next = (now + 1) % Word, NEW t \in Time
    PROVE  /\ next \in Time
           /\ Since(next, t) = IF Since(now, t) = Word - 1 THEN 0 ELSE Since(now, t) + 1
           /\ Since(t, next) = IF Since(t, now) = 0 THEN Word - 1 ELSE Since(t, now) - 1
           /\ Since(now, t) \in 0 .. Word - 1 /\ Since(t, now) \in 0 .. Word - 1
<1>1. next = IF now = Word - 1 THEN 0 ELSE now + 1
  BY WordFacts, ModFacts
<1>2. next \in Time
  BY <1>1, WordFacts
<1>3. /\ Since(now, t) = IF now >= t THEN now - t ELSE now - t + Word
      /\ Since(next, t) = IF next >= t THEN next - t ELSE next - t + Word
  BY <1>2, SinceFacts
<1>4. /\ Since(t, now) = IF t >= now THEN t - now ELSE t - now + Word
      /\ Since(t, next) = IF t >= next THEN t - next ELSE t - next + Word
  BY <1>2, SinceFacts
<1>5. Since(next, t) = IF Since(now, t) = Word - 1 THEN 0 ELSE Since(now, t) + 1
  BY <1>1, <1>2, <1>3, WordFacts
<1>6. Since(t, next) = IF Since(t, now) = 0 THEN Word - 1 ELSE Since(t, now) - 1
  BY <1>1, <1>2, <1>4, WordFacts
<1> QED
  BY <1>2, <1>5, <1>6, SinceFacts

LEMMA TickFits ==
    ASSUME NEW now \in Time, NEW next, next = (now + 1) % Word, NEW c \in Counter, NEW r,
           NEW limit \in Nat, limit >= 2, Fits(now, r, c, limit)
    PROVE  Fits(next, Older(r), c, limit)
<1> DEFINE s == Since(now, c.start)
           z == Since(next, c.start)
           a == Since(c.lock, now)
           b == Since(c.lock, next)
           q == Older(r)
<1>1. c.start \in Time /\ c.lock \in Time /\ c.fails \in Nat
  BY DEF Counter
<1>2. /\ s \in 0 .. Word - 1 /\ z = IF s = Word - 1 THEN 0 ELSE s + 1
      /\ a \in 0 .. Word - 1 /\ b = IF a = 0 THEN Word - 1 ELSE a - 1
  BY <1>1, Passing
<1>3. r \in SUBSET Failure /\ IsFiniteSet(r) /\ Cardinality(r) \in Nat
      /\ \A f \in r : f.age \in Nat /\ f.age < Window /\ f.nr \in Nat
  BY SizeFacts DEF Fits
<1>4. /\ q \in SUBSET Failure /\ IsFiniteSet(q)
      /\ Cardinality(q) \in Nat /\ Cardinality(q) <= Cardinality(r)
      /\ \A g \in q : \E f \in r : g.age = f.age + 1 /\ g.nr = f.nr
  BY <1>3, OlderFacts
<1>5. \A g \in q : g.age \in Nat /\ g.age > 0 /\ g.age < Window
  BY <1>3, <1>4, GuessFacts DEF Failure
<1>6. Cardinality(q) <= 2 * limit - 2
  BY <1>3, <1>4 DEF Fits
<1> HIDE DEF s, z, a, b
<1>7. ASSUME c.lock # 0 PROVE Banned(next, q, c)
  <2>1. SUFFICES ASSUME NEW g \in q PROVE b <= Lockout /\ g.age >= Lockout - b
    BY DEF Banned, b
  <2>2. PICK f \in r : g.age = f.age + 1
    BY <1>4
  <2>3. a <= Lockout /\ f.age >= Lockout - a
    BY <1>7 DEF Fits, Banned, a
  <2>4. f.age \in Nat /\ g.age < Window /\ g.age \in Nat
    BY <1>3, <1>5
  <2>5. a # 0
    BY <2>2, <2>3, <2>4, GuessFacts
  <2> QED
    BY <2>2, <2>3, <2>4, <2>5, <1>2, GuessFacts
<1>8. ASSUME c.lock = 0, c.open PROVE Counted(next, q, c, limit)
  <2>1. /\ c.fails \in 1 .. limit - 1
        /\ Cardinality(r) <= limit - 2 + c.fails
        /\ Cardinality(Younger(r, s)) <= c.fails - 1
        /\ \A f \in r : f.age > s - Window
    BY <1>8 DEF Fits, Counted, s
  <2>2. Cardinality(q) <= limit - 2 + c.fails
    BY <2>1, <1>3, <1>4
  <2>3. \A g \in q : g.age > z - Window /\ (g.age = 0 => g.nr < c.fails)
    <3>1. SUFFICES ASSUME NEW g \in q PROVE g.age > z - Window
      BY <1>5
    <3>2. PICK f \in r : g.age = f.age + 1
      BY <1>4
    <3>3. f.age > s - Window /\ f.age \in Nat /\ g.age \in Nat /\ g.age > 0
      BY <2>1, <1>3, <1>5
    <3> QED
      BY <3>2, <3>3, <1>2, GuessFacts
  <2>4. Cardinality(Younger(q, z)) <= c.fails - 1
    <3>1. CASE s = Word - 1
      <4>1. Younger(q, 0) = {}
        BY <1>5 DEF Younger
      <4>2. Cardinality({}) = 0
        BY FS_EmptySet
      <4>3. Cardinality(Younger(q, z)) = 0
        BY <3>1, <4>1, <4>2, <1>2
      <4> QED
        BY <4>3, <2>1, <1>1
    <3>2. CASE s # Word - 1
      <4> DEFINE Y == Younger(r, s)
      <4>1. Y \in SUBSET Failure /\ IsFiniteSet(Y) /\ Cardinality(Y) \in Nat
        BY <1>3, SizeFacts DEF Younger
      <4>2. z = s + 1
        BY <3>2, <1>2
      <4>3. Younger(q, z) \in SUBSET Older(Y)
        <5>1. SUFFICES ASSUME NEW g \in q, g.age < z PROVE g \in Older(Y)
          BY DEF Younger
        <5>2. PICK f \in r : f.age + 1 < Window /\ g = [f EXCEPT !.age = @ + 1]
          BY <5>1 DEF Older
        <5>3. f \in [age : 0 .. Window - 1, nr : Nat] /\ f.age \in Nat
          BY <5>2, <1>3 DEF Failure
        <5>4. g.age = f.age + 1
          BY <5>2, <5>3
        <5>5. f.age < s
          BY <5>1, <5>3, <5>4, <4>2, <1>2, GuessFacts
        <5>6. f \in Y
          BY <5>2, <5>5 DEF Younger
        <5> HIDE DEF Y
        <5> QED
          BY <5>2, <5>6 DEF Older
      <4> HIDE DEF Y
      <4>4. IsFiniteSet(Older(Y)) /\ Cardinality(Older(Y)) \in Nat
            /\ Cardinality(Older(Y)) <= Cardinality(Y)
        BY <4>1, OlderFacts
      <4>5. Cardinality(Younger(q, z)) <= Cardinality(Older(Y))
            /\ Cardinality(Younger(q, z)) \in Nat
        BY <4>3, <4>4, FS_Subset, FS_CardinalityType
      <4>6. Cardinality(Y) <= c.fails - 1
        BY <2>1 DEF Y
      <4> QED
        BY <4>1, <4>4, <4>5, <4>6, <1>1
    <3> QED
      BY <3>1, <3>2
  <2> QED
    BY <2>1, <2>2, <2>3, <2>4 DEF Counted, z
<1>9. ASSUME c.lock = 0, ~c.open PROVE Shut(q, c, limit)
  <2>1. c.fails = 0 /\ Cardinality(r) <= limit - 2
    BY <1>9 DEF Fits, Shut
  <2>2. Cardinality(q) <= limit - 2
    BY <2>1, <1>3, <1>4
  <2> QED
    BY <2>1, <2>2, <1>5 DEF Shut
<1> HIDE DEF q
<1>10. Fits(next, q, c, limit)
  BY <1>4, <1>6, <1>7, <1>8, <1>9 DEF Fits
<1> QED
  BY <1>10 DEF q

-----------------------------------------------------------------------------
\* The search of haAuthClient normalises the buckets it passes.
LEMMA SoughtNormal ==
    ASSUME AuthTypeOK, NEW k \in Client, NEW i \in Slot \ {SlotOf(k, clock)}
    PROVE  Sought(k, clock)[i].counter
              \in {clients[i].counter, Normal(clients[i].counter, clock)}
<1> DEFINE s == SlotOf(k, clock)
           passed(j) == clients[j].key # NoClient /\ (Held(k) # {} => j < s)
<1>1. clients[i] \in Entry
  BY DEF AuthTypeOK
<1>2. Sought(k, clock)[i] = IF passed(i) THEN [clients[i] EXCEPT !.counter = Normal(@, clock)]
                            ELSE clients[i]
  BY DEF Sought
<1> HIDE DEF passed
<1>3. [clients[i] EXCEPT !.counter = Normal(@, clock)].counter = Normal(clients[i].counter, clock)
  BY <1>1 DEF Entry
<1> QED
  BY <1>2, <1>3

\* The two counters of a call fit what the call knows of their failures.
LEMMA OwnFits ==
    ASSUME AuthInv, GuessInv, NEW k \in Client
    PROVE  /\ Fits(clock, Kept(k), Own(k), ClientLimit)
           /\ Fits(clock, recent[All], Overall, GlobalLimit)
           /\ Own(k) \in Counter /\ Normal(Own(k), clock) = Own(k)
           /\ Overall \in Counter /\ Normal(Overall, clock) = Overall
<1> DEFINE s == SlotOf(k, clock)
           b == Sought(k, clock)
<1>1. AuthTypeOK /\ clock \in Time /\ global \in Counter
  BY DEF AuthInv, AuthTypeOK
<1>2. /\ s \in Slot /\ b \in [Slot -> Entry]
      /\ \/ clients[s].key = k /\ b[s].counter = clients[s].counter
         \/ Held(k) = {} /\ b[s].counter = Clear
  BY <1>1, SoughtFacts
<1>3. Own(k) = Normal(b[s].counter, clock) /\ Overall = Normal(global, clock)
  BY DEF Own, Overall
<1> HIDE DEF s, b
<1>4. Own(k) \in Counter /\ Overall \in Counter
  BY OwnFacts
<1>5. Normal(Own(k), clock) = Own(k) /\ Normal(Overall, clock) = Overall
  BY <1>3, NormalTwice
<1>6. Fits(clock, recent[All], Overall, GlobalLimit)
  BY <1>1, <1>3, NormalFits, GuessFacts DEF GuessInv
<1>7. Fits(clock, Kept(k), Own(k), ClientLimit)
  <2>1. CASE clients[s].key = k /\ b[s].counter = clients[s].counter
    <3>1. Held(k) # {}
      BY <2>1, <1>2 DEF Held
    <3>2. Kept(k) = recent[k] /\ k # NoClient
      BY <3>1, GuessFacts DEF Kept
    <3>3. Fits(clock, recent[k], b[s].counter, ClientLimit)
      BY <2>1, <3>2, <1>2 DEF GuessInv
    <3>4. b[s].counter \in Counter
      BY <1>2 DEF Entry
    <3> QED
      BY <3>2, <3>3, <3>4, <1>1, <1>3, NormalFits, GuessFacts
  <2>2. CASE Held(k) = {} /\ b[s].counter = Clear
    <3>1. Kept(k) = {}
      BY <2>2 DEF Kept
    <3>2. Own(k) = Clear
      BY <2>2, <1>3, ClearFacts DEF Normal
    <3> QED
      BY <3>1, <3>2, NoneFits, GuessFacts
  <2> QED
    BY <2>1, <2>2, <1>2
<1> QED
  BY <1>4, <1>5, <1>6, <1>7

\* A call leaves its client, and all, with counters that fit.
LEMMA Recounting ==
    ASSUME AuthInv, GuessInv, NEW k \in Client, NEW c \in Counter, NEW g \in Counter,
           NEW q, NEW h,
           Counters(k, c, g), clock' = clock,
           Fits(clock, q, c, ClientLimit), Fits(clock, h, g, GlobalLimit),
           recent' = [recent EXCEPT ![k] = q, ![All] = h]
    PROVE  GuessInv'
<1> DEFINE s == SlotOf(k, clock)
           b == Sought(k, clock)
<1>1. AuthTypeOK /\ OneBucket /\ clock \in Time
  BY DEF AuthInv, AuthTypeOK
<1>2. /\ s \in Slot /\ b \in [Slot -> Entry] /\ b[s].key = k
      /\ \A i \in Slot \ {s} : b[i].key = clients[i].key
      /\ clients[s].key = k \/ Held(k) = {}
  BY <1>1, SoughtFacts
<1>3. \A i \in Slot \ {s} : b[i].counter \in {clients[i].counter, Normal(clients[i].counter, clock)}
  BY <1>1, SoughtNormal
<1>4. clients' = [b EXCEPT ![s].counter = c] /\ global' = g
  BY DEF Counters
<1>5. /\ recent \in [Client \cup {All} -> SUBSET Failure]
      /\ q \in SUBSET Failure /\ h \in SUBSET Failure
      /\ IsFiniteSet(q) /\ Cardinality(q) <= 2 * ClientLimit - 2
  BY DEF GuessInv, Fits
<1>6. /\ recent' \in [Client \cup {All} -> SUBSET Failure]
      /\ recent'[k] = q /\ recent'[All] = h
      /\ \A j \in Client \ {k} : recent'[j] = recent[j]
  BY <1>5, GuessFacts
<1> HIDE DEF s, b
<1>7. \A i \in Slot \ {s} : clients[i].key # k
  <2>1. SUFFICES ASSUME NEW i \in Slot \ {s}, clients[i].key = k PROVE FALSE
    OBVIOUS
  <2>2. i \in Held(k)
    BY <2>1 DEF Held
  <2>3. clients[s].key = k /\ k # NoClient
    BY <2>2, <1>2, GuessFacts
  <2> QED
    BY <2>1, <2>3, <1>1, <1>2 DEF OneBucket
<1>8. /\ clients'[s].key = k /\ clients'[s].counter = c
      /\ \A i \in Slot \ {s} : clients'[i] = b[i]
  <2>1. b[s] \in Entry
    BY <1>2
  <2>2. clients'[s] = [b[s] EXCEPT !.counter = c]
    BY <1>2, <1>4
  <2> QED
    BY <2>1, <2>2, <1>2, <1>4 DEF Entry
<1>9. ASSUME NEW i \in Slot, clients'[i].key # NoClient
      PROVE  Fits(clock, recent'[clients'[i].key], clients'[i].counter, ClientLimit)
  <2>1. CASE i = s
    BY <2>1, <1>6, <1>8
  <2>2. CASE i # s
    <3>1. /\ clients'[i].key = clients[i].key
          /\ clients'[i].counter \in {clients[i].counter, Normal(clients[i].counter, clock)}
      BY <2>2, <1>2, <1>3, <1>8
    <3>2. clients[i].key \in Client /\ clients[i].key # k /\ clients[i].counter \in Counter
      BY <2>2, <3>1, <1>1, <1>7, <1>9 DEF AuthTypeOK, Entry
    <3>3. Fits(clock, recent[clients[i].key], clients[i].counter, ClientLimit)
      BY <3>1, <1>9 DEF GuessInv
    <3>4. Fits(clock, recent[clients[i].key], Normal(clients[i].counter, clock), ClientLimit)
      BY <3>2, <3>3, <1>1, NormalFits, GuessFacts
    <3> QED
      BY <3>1, <3>2, <3>3, <3>4, <1>6
  <2> QED
    BY <2>1, <2>2
<1>10. \A j \in Client : IsFiniteSet(recent'[j]) /\ Cardinality(recent'[j]) <= 2 * ClientLimit - 2
  BY <1>5, <1>6 DEF GuessInv
<1> QED
  BY <1>4, <1>6, <1>9, <1>10 DEF GuessInv

LEMMA GuessJudging ==
    ASSUME AuthInv, GuessInv, NEW k \in Client, NEW id \in Guest,
           Refused(k, id) \/ Asked(k, id) \/ Right(k, id)
    PROVE  GuessInv'
<1>1. /\ Fits(clock, Kept(k), Own(k), ClientLimit)
      /\ Fits(clock, recent[All], Overall, GlobalLimit)
      /\ Own(k) \in Counter /\ Overall \in Counter
  BY OwnFits
<1>2. Fits(clock, {}, Clear, ClientLimit)
  BY NoneFits, GuessFacts
<1>3. recent \in [Client \cup {All} -> SUBSET Failure]
  BY DEF GuessInv
<1>4. ASSUME NEW q \in SUBSET Failure
      PROVE  [recent EXCEPT ![k] = q] = [recent EXCEPT ![k] = q, ![All] = recent[All]]
  BY <1>3, GuessFacts
<1>5. CASE Refused(k, id) \/ Asked(k, id)
  <2>1. Counters(k, Own(k), Overall) /\ clock' = clock /\ recent' = [recent EXCEPT ![k] = Kept(k)]
    BY <1>5 DEF Refused, Asked
  <2>2. Kept(k) \in SUBSET Failure
    BY <1>1 DEF Fits
  <2>3. recent' = [recent EXCEPT ![k] = Kept(k), ![All] = recent[All]]
    BY <2>1, <2>2, <1>4
  <2> QED
    BY <2>1, <2>3, <1>1, Recounting
<1>6. CASE Right(k, id)
  <2>1. Counters(k, Clear, Overall) /\ clock' = clock /\ recent' = [recent EXCEPT ![k] = {}]
    BY <1>6 DEF Right
  <2>2. recent' = [recent EXCEPT ![k] = {}, ![All] = recent[All]]
    BY <2>1, <1>4
  <2> QED
    BY <2>1, <2>2, <1>1, <1>2, ClearFacts, Recounting
<1> QED
  BY <1>5, <1>6

LEMMA GuessFailing ==
    ASSUME AuthInv, GuessInv, NEW k \in Client, NEW id \in Guest, Wrong(k, id)
    PROVE  GuessInv'
<1> DEFINE c == Failed(Own(k), ClientLimit, clock)
           g == Failed(Overall, GlobalLimit, clock)
           q == Judged(Kept(k), Own(k), c)
           h == Judged(recent[All], Overall, g)
<1>1. /\ Fits(clock, Kept(k), Own(k), ClientLimit)
      /\ Fits(clock, recent[All], Overall, GlobalLimit)
      /\ Own(k) \in Counter /\ Normal(Own(k), clock) = Own(k)
      /\ Overall \in Counter /\ Normal(Overall, clock) = Overall
  BY OwnFits
<1>2. clock \in Time /\ recent \in [Client \cup {All} -> SUBSET Failure]
  BY DEF AuthInv, AuthTypeOK, GuessInv
<1>3. ~(Wait(Own(k)) > 0) /\ ~(Wait(Overall) > 0) /\ Counters(k, c, g) /\ clock' = clock
  BY DEF Wrong, Throttled
<1>4. recent' = [recent EXCEPT ![k] = q, ![All] = h]
  <2>1. recent' = [recent EXCEPT ![k] = q, ![All] = Judged(@, Overall, g)]
    BY DEF Wrong
  <2>2. [recent EXCEPT ![k] = q][All] = recent[All]
    BY <1>2, GuessFacts
  <2> QED
    BY <2>1, <2>2
<1>5. Fits(clock, q, c, ClientLimit) /\ c \in Counter
  BY <1>1, <1>2, <1>3, FailedFits, FailedFacts, GuessFacts
<1>6. Fits(clock, h, g, GlobalLimit) /\ g \in Counter
  BY <1>1, <1>2, <1>3, FailedFits, FailedFacts, GuessFacts
<1> HIDE DEF c, g, q, h
<1> QED
  BY <1>3, <1>4, <1>5, <1>6, Recounting

LEMMA GuessAges ==
    ASSUME AuthInv, GuessInv, AuthElapse
    PROVE  GuessInv'
<1>1. /\ clock \in Time /\ global \in Counter /\ clients \in [Slot -> Entry]
      /\ recent \in [Client \cup {All} -> SUBSET Failure]
  BY DEF AuthInv, AuthTypeOK, GuessInv
<1>2. /\ clock' = (clock + 1) % Word /\ clients' = clients /\ global' = global
      /\ recent' = [w \in DOMAIN recent |-> Older(recent[w])]
  BY DEF AuthElapse, Ticks
<1>3. \A w \in Client \cup {All} : recent'[w] = Older(recent[w])
  BY <1>1, <1>2
<1>4. ASSUME NEW w \in Client \cup {All}
      PROVE  /\ recent[w] \in SUBSET Failure
             /\ IsFiniteSet(recent[w]) => /\ Older(recent[w]) \in SUBSET Failure
                                          /\ IsFiniteSet(Older(recent[w]))
                                          /\ Cardinality(Older(recent[w])) \in Nat
                                          /\ Cardinality(recent[w]) \in Nat
                                          /\ Cardinality(Older(recent[w])) <= Cardinality(recent[w])
  BY <1>1, OlderFacts, FS_CardinalityType
<1>5. Fits(clock', recent'[All], global', GlobalLimit)
  <2>1. Fits(clock, recent[All], global, GlobalLimit)
    BY DEF GuessInv
  <2> DEFINE r == recent[All]
             n == clock'
  <2>2. n = (clock + 1) % Word /\ Fits(clock, r, global, GlobalLimit)
    BY <2>1, <1>2
  <2>3. recent'[All] = Older(r)
    BY <1>3
  <2> HIDE DEF r, n
  <2>4. Fits(n, Older(r), global, GlobalLimit)
    BY <2>2, <1>1, TickFits, GuessFacts
  <2> QED
    BY <2>3, <2>4, <1>2 DEF n
<1>6. ASSUME NEW i \in Slot, clients[i].key # NoClient
      PROVE  Fits(clock', recent'[clients[i].key], clients[i].counter, ClientLimit)
  <2> DEFINE r == recent[clients[i].key]
             n == clock'
             c == clients[i].counter
  <2>1. n = (clock + 1) % Word /\ Fits(clock, r, c, ClientLimit)
    BY <1>2, <1>6 DEF GuessInv
  <2>2. c \in Counter /\ recent'[clients[i].key] = Older(r)
    BY <1>1, <1>3, <1>6 DEF Entry
  <2> HIDE DEF r, n, c
  <2>3. Fits(n, Older(r), c, ClientLimit)
    BY <2>1, <2>2, <1>1, TickFits, GuessFacts
  <2> QED
    BY <2>2, <2>3 DEF n, c
<1>7. \A k \in Client : IsFiniteSet(recent[k]) /\ Cardinality(recent[k]) <= 2 * ClientLimit - 2
  BY DEF GuessInv
<1>8. ASSUME NEW k \in Client
      PROVE  IsFiniteSet(recent'[k]) /\ Cardinality(recent'[k]) <= 2 * ClientLimit - 2
  BY <1>3, <1>4, <1>7, GuessFacts
<1>9. ASSUME NEW w \in Client \cup {All} PROVE recent'[w] \in SUBSET Failure
  BY <1>3, <1>4, <1>7 DEF GuessInv, Fits
<1>10. recent' \in [Client \cup {All} -> SUBSET Failure]
  <2>1. recent' = [w \in Client \cup {All} |-> Older(recent[w])]
    BY <1>1, <1>2
  <2> QED
    BY <2>1, <1>3, <1>9
<1> QED
  BY <1>2, <1>5, <1>6, <1>8, <1>10 DEF GuessInv

LEMMA GuessBegins ==
    ASSUME AuthInit PROVE GuessInv
<1>1. /\ recent = [w \in Client \cup {All} |-> {}] /\ global = Clear
      /\ clients = [i \in Slot |-> Free]
  BY DEF AuthInit
<1>2. IsFiniteSet({}) /\ Cardinality({}) = 0
  BY FS_EmptySet
<1>3. Fits(clock, {}, Clear, GlobalLimit)
  BY NoneFits, GuessFacts
<1>4. \A i \in Slot : clients[i].key = NoClient
  BY <1>1 DEF Free
<1> QED
  BY <1>1, <1>2, <1>3, <1>4, GuessFacts DEF GuessInv

\* What the counters know is what any interval as long as a window holds (haAuthRecordFailure).
THEOREM GuessInvariant == AuthSpec => []GuessInv
<1>1. clock = 0 /\ AuthInit => GuessInv
  BY GuessBegins
<1>2. ASSUME AuthInv, GuessInv, [AuthNext]_<<clock, authVars>>
      PROVE  GuessInv'
  <2>1. ASSUME NEW k \in Client, NEW id \in Guest,
               Refused(k, id) \/ Asked(k, id) \/ Right(k, id) \/ Wrong(k, id)
        PROVE  GuessInv'
    BY <1>2, <2>1, GuessJudging, GuessFailing
  <2>2. ASSUME clock' = clock, clients' = clients, global' = global, recent' = recent
        PROVE  GuessInv'
    BY <1>2, <2>2 DEF GuessInv
  <2>3. ASSUME NEW id \in Guest, KnownComes(id) \/ Leaves(id)
        PROVE  GuessInv'
    BY <2>2, <2>3 DEF KnownComes, Leaves
  <2>4. CASE RestoreSession
    BY <2>2, <2>4 DEF RestoreSession
  <2>5. CASE AuthElapse
    BY <1>2, <2>5, GuessAges
  <2>6. CASE UNCHANGED <<clock, authVars>>
    BY <2>2, <2>6 DEF authVars
  <2> QED
    BY <1>2, <2>1, <2>3, <2>4, <2>5, <2>6 DEF AuthNext
<1> QED
  BY <1>1, <1>2, AuthInvariant, PTL DEF AuthSpec

\* No interval as long as a window holds more than twice a limit of wrong codes, less two, of a
\* client that keeps its bucket or of all together, wherever the clock wraps, but for a
\* lock-out whose deadline falls on zero.
THEOREM GuessesBounded == AuthSpec => []FailuresBounded
<1>1. GuessInv => FailuresBounded
  BY DEF GuessInv, Fits, FailuresBounded
<1> QED
  BY <1>1, GuessInvariant, PTL

-----------------------------------------------------------------------------
(* What is sent to a phone (WsFlow).                                     *)

Tracker == {"control", "other"}

\* A call only runs on a client that is open; only a control is checked a second time; a
\* retry has a cached snapshot to send.
JobOK ==
    /\ job.op # "none" => open
    /\ job.op = "recheck" => job.class = "control"
    /\ job.op = "enqueue" /\ job.class \in Replaceable => issued[KindOf(job.class)] # 0
    /\ job.op = "retry" => job.class \in Kind /\ cache[job.class] # 0

\* How deep a message of the class may be enqueued: streams and snapshots only below the
\* drop depth, controls while fewer than ControlCloseDepth of them wait.
Room(c) == IF c = "control" THEN StreamDropDepth + ControlCloseDepth ELSE StreamDropDepth

\* Past the drop depth there are controls only, so their number bounds the queue.
Short ==
    open => /\ \A i \in DOMAIN queue : i > StreamDropDepth => queue[i].class = "control"
            /\ Len(queue) <= StreamDropDepth + ControlCloseDepth
            /\ job.op \in {"enqueue", "retry"} => Len(tracker) < Room(job.class)

QInv == TypeOK /\ TrackerAligned /\ JobOK /\ Short

-----------------------------------------------------------------------------
(* The policy. *)

LEMMA DepthFacts ==
    /\ CoalesceDepth \in Nat \ {0} /\ StreamDropDepth \in Nat \ {0}
    /\ ControlCloseDepth \in Nat \ {0} /\ TrackerCapacity \in Nat \ {0}
    /\ CoalesceDepth <= StreamDropDepth
    /\ StreamDropDepth + ControlCloseDepth < TrackerCapacity
    /\ MaxVersion \in Nat
BY DepthAssumption, MaxVersionAssumption

LEMMA TrackedFacts == \A c \in Class : Tracked(c) \in Tracker /\ (Tracked(c) = "control" <=> c = "control")
BY DEF Tracked, Class, Tracker

LEMMA MessageFacts ==
    ASSUME NEW m \in Message
    PROVE  /\ m.class \in Class
           /\ m.version \in 0 .. MaxVersion
           /\ m.class \in Replaceable => m.version \in 1 .. MaxVersion
           /\ KindOf(m.class) \in Kind
BY DepthFacts DEF Message, Class, Replaceable, KindOf, Kind

\* The tracker after the depth was read: as long as the queue, its newest entries.
LEMMA ObservedFacts ==
    ASSUME tracker \in Seq(Tracker), NEW depth \in Nat, depth <= Len(tracker)
    PROVE  /\ Observed(depth) \in Seq(Tracker)
           /\ Len(Observed(depth)) = depth
           /\ \A i \in 1 .. depth : Observed(depth)[i] = tracker[i + Len(tracker) - depth]
<1> DEFINE t == [i \in 1 .. depth |-> tracker[i + Len(tracker) - depth]]
<1>1. \A i \in 1 .. depth : i + Len(tracker) - depth \in 1 .. Len(tracker) OBVIOUS
<1>2. \A i \in 1 .. depth : tracker[i + Len(tracker) - depth] \in Tracker BY <1>1
<1>3. t \in Seq(Tracker) /\ Len(t) = depth BY <1>2
<1>4. Observed(depth) = t BY DEF Observed
<1> QED BY <1>3, <1>4

\* Reading the depth aligns the tracker with the queue.
LEMMA ReadsDepth ==
    ASSUME TypeOK, TrackerAligned, open
    PROVE  LET o == Observed(Len(queue)) IN
           /\ o \in Seq(Tracker) /\ Len(o) = Len(queue)
           /\ \A i \in DOMAIN queue : o[i] = Tracked(queue[i].class)
           /\ {i \in DOMAIN o : o[i] = "control"} = {i \in DOMAIN queue : queue[i].class = "control"}
<1> DEFINE o == Observed(Len(queue))
<1>1. queue \in Seq(Message) /\ tracker \in Seq(Tracker) BY DEF TypeOK, Tracker
<1>2. Len(queue) \in Nat /\ Len(queue) <= Len(tracker) BY <1>1 DEF TrackerAligned
<1>3. /\ o \in Seq(Tracker) /\ Len(o) = Len(queue)
      /\ \A i \in 1 .. Len(queue) : o[i] = tracker[i + Len(tracker) - Len(queue)]
  BY <1>1, <1>2, ObservedFacts
<1> HIDE DEF o
<1>4. \A i \in DOMAIN queue : o[i] = Tracked(queue[i].class)
  BY <1>1, <1>3 DEF TrackerAligned
<1>5. \A i \in DOMAIN queue : queue[i].class \in Class BY <1>1, MessageFacts
<1>6. \A i \in DOMAIN queue : o[i] = "control" <=> queue[i].class = "control"
  BY <1>4, <1>5, TrackedFacts
<1>7. DOMAIN o = DOMAIN queue BY <1>1, <1>3
<1> QED BY <1>3, <1>4, <1>6, <1>7 DEF o

\* A control that is not refused finds room, since all beyond the drop depth are controls.
LEMMA ControlFits ==
    ASSUME TypeOK, TrackerAligned, Short, open,
           ~Overloads("control", Controls(Observed(Len(queue))))
    PROVE  Len(queue) < StreamDropDepth + ControlCloseDepth
<1> DEFINE o == Observed(Len(queue))
           C == {i \in DOMAIN queue : queue[i].class = "control"}
           far == (StreamDropDepth + 1) .. Len(queue)
<1>1. queue \in Seq(Message) BY DEF TypeOK
<1>2. Controls(o) = Cardinality(C) BY ReadsDepth DEF Controls
<1>3. far \subseteq C BY <1>1, DepthFacts DEF Short
<1>4. IsFiniteSet(1 .. Len(queue)) BY <1>1, FS_Interval
<1>5. C \subseteq 1 .. Len(queue) BY <1>1
<1>6. IsFiniteSet(C) BY <1>4, <1>5, FS_Subset
<1>7. Cardinality(far) <= Cardinality(C) /\ Cardinality(C) \in Nat
  BY <1>3, <1>6, FS_Subset, FS_CardinalityType
<1>8. Cardinality(C) < ControlCloseDepth BY <1>2, <1>7, DepthFacts DEF Overloads
<1>9. CASE StreamDropDepth + 1 > Len(queue) BY <1>1, <1>9, DepthFacts
<1>10. CASE StreamDropDepth + 1 <= Len(queue)
  <2>1. Cardinality(far) = Len(queue) - (StreamDropDepth + 1) + 1
    BY <1>1, <1>10, DepthFacts, FS_Interval
  <2> QED BY <1>1, <1>7, <1>8, <2>1, DepthFacts
<1> QED BY <1>1, <1>9, <1>10, DepthFacts

\* Another message that is not held back does, too.
LEMMA OthersFit ==
    ASSUME NEW c \in Class \ {"control"}, NEW depth \in Nat,
           ~Drops(c, depth), ~Coalesces(c, depth)
    PROVE  depth < StreamDropDepth
BY DepthFacts DEF Drops, Coalesces, Class, Stream, Replaceable

-----------------------------------------------------------------------------
(* The steps, one lemma for each action. *)

LEMMA QInit == FlowInit => QInv
<1> SUFFICES ASSUME FlowInit PROVE QInv OBVIOUS
<1> USE DepthFacts DEF FlowInit
<1>1. queue = <<>> /\ tracker = <<>> /\ job = None OBVIOUS
<1>2. None \in Job /\ None.op = "none" BY DEF None, Job, Class
<1>3. TypeOK BY <1>1, <1>2 DEF TypeOK, Kind
<1>4. TrackerAligned BY <1>1 DEF TrackerAligned
<1>5. JobOK BY <1>1, <1>2 DEF JobOK
<1>6. Short BY <1>1, <1>2 DEF Short
<1> QED BY <1>3, <1>4, <1>5, <1>6 DEF QInv

\* Only the calls, or nothing, touch what is neither queue nor tracker nor job.
LEMMA QSend ==
    ASSUME QInv, NEW c \in Class, Send(c)
    PROVE  QInv'
<1> USE DEF QInv
<1>0. open /\ open' /\ UNCHANGED <<queue, taken>> BY DEF Send, TypeOK
<1>1. tracker' = Observed(Len(queue)) BY DEF Send
<1>2. /\ tracker' \in Seq(Tracker) /\ Len(tracker') = Len(queue)
      /\ \A i \in DOMAIN queue : tracker'[i] = Tracked(queue[i].class)
  BY <1>0, <1>1, ReadsDepth
<1>3. queue \in Seq(Message) /\ Len(queue) \in Nat BY DEF TypeOK
<1>4. KindOf(c) \in Kind BY DEF KindOf, Kind
<1>5. issued' \in [Kind -> 0 .. MaxVersion]
  BY <1>4, DepthFacts DEF Send, TypeOK
<1>6. cache' \in [Kind -> 0 .. MaxVersion]
  <2>1. CASE UNCHANGED cache BY <2>1 DEF TypeOK
  <2>2. CASE Cached(c) BY <2>2, <1>4, <1>5 DEF Cached, TypeOK
  <2> QED BY <2>1, <2>2 DEF Send
<1>7. \/ job' = None
      \/ /\ ~Drops(c, Len(queue)) /\ ~Coalesces(c, Len(queue))
         /\ \/ /\ Overloads(c, Controls(tracker'))
               /\ job' = [op |-> "recheck", class |-> c, attempt |-> 0]
            \/ /\ ~Overloads(c, Controls(tracker'))
               /\ job' = [op |-> "enqueue", class |-> c, attempt |-> 0]
  BY DEF Send, Done, None
<1>8. job' \in Job BY <1>7 DEF None, Job, Class
<1>9. TypeOK' BY <1>0, <1>2, <1>3, <1>5, <1>6, <1>8, DepthFacts DEF TypeOK, Tracker
<1>10. TrackerAligned' BY <1>0, <1>2, <1>3 DEF TrackerAligned
<1>11. JobOK'
  <2>1. c \in Replaceable => issued'[KindOf(c)] # 0
    BY <1>4, DepthFacts DEF Send, TypeOK
  <2> QED BY <1>0, <1>7, <2>1 DEF JobOK, None, Overloads
<1>12. job'.op \in {"enqueue", "retry"} => Len(queue) < Room(job'.class)
  <2>1. CASE job'.op = "enqueue" /\ c = "control"
    <3>1. ~Overloads("control", Controls(Observed(Len(queue))))
      BY <1>1, <1>7, <2>1 DEF None
    <3>2. Len(queue) < StreamDropDepth + ControlCloseDepth BY <1>0, <3>1, ControlFits
    <3> QED BY <1>7, <2>1, <3>2 DEF None, Room
  <2>2. CASE job'.op = "enqueue" /\ c # "control"
    <3>1. ~Drops(c, Len(queue)) /\ ~Coalesces(c, Len(queue)) BY <1>7, <2>2 DEF None
    <3>2. Len(queue) < StreamDropDepth BY <1>3, <2>2, <3>1, OthersFit
    <3> QED BY <1>7, <2>2, <3>2 DEF None, Room
  <2> QED BY <2>1, <2>2, <1>7 DEF None
<1>13. Short' BY <1>0, <1>2, <1>12 DEF Short
<1> QED BY <1>9, <1>10, <1>11, <1>13

LEMMA QRecheck ==
    ASSUME QInv, Recheck
    PROVE  QInv'
<1> USE DEF QInv
<1>0. open /\ job.class = "control" /\ UNCHANGED <<queue, cache, issued, taken>>
  BY DEF Recheck, JobOK
<1>1. tracker' = Observed(Len(queue)) BY DEF Recheck
<1>2. /\ tracker' \in Seq(Tracker) /\ Len(tracker') = Len(queue)
      /\ \A i \in DOMAIN queue : tracker'[i] = Tracked(queue[i].class)
  BY <1>0, <1>1, ReadsDepth
<1>3. queue \in Seq(Message) /\ Len(queue) \in Nat BY DEF TypeOK
<1>4. \/ open' = FALSE /\ job' = None
      \/ /\ ~Overloads("control", Controls(tracker'))
         /\ open' = open /\ job' = [job EXCEPT !.op = "enqueue"]
  BY <1>0 DEF Recheck, Done
<1>5. job' \in Job /\ open' \in BOOLEAN
  <2>1. job \in Job /\ open \in BOOLEAN BY DEF TypeOK
  <2>2. CASE open' = FALSE /\ job' = None
    <3>1. None \in Job BY DEF None, Job, Class
    <3> QED BY <2>2, <3>1
  <2>3. CASE open' = open /\ job' = [job EXCEPT !.op = "enqueue"] BY <2>1, <2>3 DEF Job
  <2> QED BY <1>4, <2>2, <2>3
<1>6. TypeOK' BY <1>0, <1>2, <1>3, <1>5, DepthFacts DEF TypeOK, Tracker
<1>7. TrackerAligned' BY <1>0, <1>2, <1>3 DEF TrackerAligned
<1>8. job'.op \in {"none", "enqueue"} /\ (job'.op # "none" => open' /\ job'.class = "control")
  <2>1. CASE job' = None BY <2>1 DEF None
  <2>2. CASE open' = open /\ job' = [job EXCEPT !.op = "enqueue"]
    BY <2>2, <1>0 DEF Job, TypeOK
  <2> QED BY <1>4, <2>1, <2>2
<1>9. JobOK' BY <1>8 DEF JobOK, Replaceable
<1>10. job'.op = "enqueue" => Len(queue) < StreamDropDepth + ControlCloseDepth
  <2> SUFFICES ASSUME job'.op = "enqueue"
               PROVE  Len(queue) < StreamDropDepth + ControlCloseDepth
    OBVIOUS
  <2>1. job' # None BY DEF None
  <2>2. ~Overloads("control", Controls(Observed(Len(queue)))) BY <1>1, <1>4, <2>1
  <2> QED BY <1>0, <2>2, ControlFits
<1>11. Short' BY <1>0, <1>2, <1>8, <1>10 DEF Short, Room
<1> QED BY <1>6, <1>7, <1>9, <1>11

\* What a recorded message leaves: tracker and queue grow together.
LEMMA QRecorded ==
    ASSUME QInv, open, NEW m \in Message, Len(tracker) < Room(m.class), Recorded(m)
    PROVE  /\ open' = TRUE
           /\ queue' = Append(queue, m) /\ tracker' = Append(tracker, Tracked(m.class))
           /\ queue' \in Seq(Message) /\ Len(queue') <= TrackerCapacity
           /\ tracker' \in Seq(Tracker) /\ Len(tracker') <= TrackerCapacity
           /\ cache' \in [Kind -> 0 .. MaxVersion]
           /\ TrackerAligned'
           /\ \A i \in DOMAIN queue' : i > StreamDropDepth => queue'[i].class = "control"
           /\ Len(queue') <= StreamDropDepth + ControlCloseDepth
<1> USE DEF QInv
<1>1. queue \in Seq(Message) /\ tracker \in Seq(Tracker) BY DEF TypeOK, Tracker
<1>2. Len(tracker) \in Nat /\ Len(queue) \in Nat /\ Len(queue) <= Len(tracker)
  BY <1>1 DEF TrackerAligned
<1>3. Len(tracker) < TrackerCapacity BY <1>2, DepthFacts DEF Room
<1>4. open' = TRUE /\ queue' = Append(queue, m) /\ tracker' = Append(tracker, Tracked(m.class))
  BY <1>3 DEF Recorded
<1>5. m.class \in Class /\ KindOf(m.class) \in Kind /\ Tracked(m.class) \in Tracker
  BY MessageFacts, TrackedFacts
<1>6. cache' \in [Kind -> 0 .. MaxVersion]
  <2>1. cache \in [Kind -> 0 .. MaxVersion] /\ 0 \in 0 .. MaxVersion
    BY DepthFacts DEF TypeOK
  <2>2. cache' \in {cache, [cache EXCEPT ![KindOf(m.class)] = 0]}
    BY <1>3 DEF Recorded
  <2> QED
    BY <1>5, <2>1, <2>2
<1>7. TrackerAligned' BY <1>1, <1>2, <1>4 DEF TrackerAligned
<1>8. \A i \in DOMAIN queue' : i > StreamDropDepth => queue'[i].class = "control"
  BY <1>1, <1>2, <1>4, DepthFacts DEF Short, Room
<1> QED BY <1>1, <1>2, <1>3, <1>4, <1>5, <1>6, <1>7, <1>8, DepthFacts DEF Room

LEMMA QSendEnqueued ==
    ASSUME QInv, SendEnqueued
    PROVE  QInv'
<1> DEFINE m == [class |-> job.class,
                 version |-> IF job.class \in Replaceable THEN issued[KindOf(job.class)] ELSE 0]
<1> USE DEF QInv
<1>1. job.op = "enqueue" /\ open /\ job.class \in Class BY DEF SendEnqueued, JobOK, TypeOK, Job
<1>2. KindOf(job.class) \in Kind BY DEF KindOf, Kind
<1>3. m \in Message
  BY <1>1, <1>2, DepthFacts DEF Message, JobOK, TypeOK, Class, Replaceable
<1>4. Len(tracker) < Room(m.class) BY <1>1 DEF Short
<1>5. Recorded(m) BY DEF SendEnqueued
<1> HIDE DEF m
<1>6. /\ open' = TRUE
      /\ queue' \in Seq(Message) /\ Len(queue') <= TrackerCapacity
      /\ tracker' \in Seq(Tracker) /\ Len(tracker') <= TrackerCapacity
      /\ cache' \in [Kind -> 0 .. MaxVersion]
      /\ TrackerAligned'
      /\ \A i \in DOMAIN queue' : i > StreamDropDepth => queue'[i].class = "control"
      /\ Len(queue') <= StreamDropDepth + ControlCloseDepth
  BY <1>1, <1>3, <1>4, <1>5, QRecorded
<1>7. job' = None /\ UNCHANGED <<issued, taken>> BY DEF SendEnqueued, Done
<1>8. None \in Job /\ None.op = "none" BY DEF None, Job, Class
<1>9. TypeOK' BY <1>6, <1>7, <1>8 DEF TypeOK, Tracker
<1>10. JobOK' /\ Short' BY <1>6, <1>7, <1>8 DEF JobOK, Short
<1> QED BY <1>6, <1>9, <1>10

LEMMA QSendFails ==
    ASSUME QInv, SendFails
    PROVE  QInv'
<1> USE DEF QInv
<1>1. job.op = "enqueue" /\ open BY DEF SendFails, JobOK
<1>2. job' = None /\ UNCHANGED <<queue, tracker, issued, taken>> BY DEF SendFails, Done
<1>3. None \in Job /\ None.op = "none" BY DEF None, Job, Class
<1>4. KindOf(job.class) \in Kind BY DEF KindOf, Kind
<1>5. cache' \in [Kind -> 0 .. MaxVersion] /\ open' \in BOOLEAN
  BY <1>4, DepthFacts DEF SendFails, TypeOK
<1>6. TypeOK' BY <1>2, <1>3, <1>5 DEF TypeOK
<1>7. TrackerAligned' BY <1>1, <1>2 DEF TrackerAligned
<1>8. JobOK' /\ Short' BY <1>1, <1>2, <1>3 DEF JobOK, Short
<1> QED BY <1>6, <1>7, <1>8

LEMMA QFlushLooks ==
    ASSUME QInv, open, NEW attempt \in 0 .. 2, FlushLooks(attempt)
    PROVE  QInv'
<1> USE DEF QInv
<1>0. UNCHANGED <<queue, cache, open, issued, taken>> BY DEF FlushLooks
<1>1. tracker' = Observed(Len(queue)) BY DEF FlushLooks
<1>2. /\ tracker' \in Seq(Tracker) /\ Len(tracker') = Len(queue)
      /\ \A i \in DOMAIN queue : tracker'[i] = Tracked(queue[i].class)
  BY <1>1, ReadsDepth
<1>3. queue \in Seq(Message) /\ Len(queue) \in Nat BY DEF TypeOK
<1>4. \/ job' = None
      \/ /\ attempt # 2
         /\ \E k \in Retry(Len(queue)) :
                job' = [op |-> "retry", class |-> k, attempt |-> attempt + 1]
  BY DEF FlushLooks, Done
<1>5. \A k \in Retry(Len(queue)) :
          k \in Kind /\ cache[k] # 0 /\ Len(queue) < CoalesceDepth
  BY <1>3, DepthFacts DEF Retry, Kind
<1>6. \/ job' = None
      \/ /\ job' \in Job /\ job'.op = "retry" /\ job'.class \in Kind
         /\ cache[job'.class] # 0 /\ Len(queue) < CoalesceDepth
  <2>1. ASSUME NEW k \in Retry(Len(queue)), attempt # 2,
               job' = [op |-> "retry", class |-> k, attempt |-> attempt + 1]
        PROVE  /\ job' \in Job /\ job'.op = "retry" /\ job'.class \in Kind
               /\ cache[job'.class] # 0 /\ Len(queue) < CoalesceDepth
    BY <2>1, <1>5 DEF Job, Kind, Class
  <2> QED BY <1>4, <2>1
<1>7. None \in Job /\ None.op = "none" BY DEF None, Job, Class
<1>8. TypeOK' BY <1>0, <1>2, <1>3, <1>6, <1>7, DepthFacts DEF TypeOK, Tracker
<1>9. TrackerAligned' BY <1>0, <1>2, <1>3 DEF TrackerAligned
<1>10. JobOK' BY <1>0, <1>6, <1>7 DEF JobOK
<1>11. Short' BY <1>0, <1>2, <1>3, <1>6, <1>7, DepthFacts DEF Short, Room, Kind
<1> QED BY <1>8, <1>9, <1>10, <1>11

LEMMA QFlushEnqueued ==
    ASSUME QInv, FlushEnqueued
    PROVE  QInv'
<1> DEFINE m == [class |-> job.class, version |-> cache[job.class]]
<1> USE DEF QInv
<1>1. /\ job.op = "retry" /\ open /\ job.class \in Kind /\ cache[job.class] # 0
      /\ job \in Job
  BY DEF FlushEnqueued, JobOK, TypeOK
<1>2. m \in Message
  BY <1>1, DepthFacts DEF Message, TypeOK, Kind, Replaceable
<1>3. Len(tracker) < Room(m.class) BY <1>1 DEF Short
<1>4. Recorded(m) BY DEF FlushEnqueued
<1> HIDE DEF m
<1>5. /\ open' = TRUE
      /\ queue' \in Seq(Message) /\ Len(queue') <= TrackerCapacity
      /\ tracker' \in Seq(Tracker) /\ Len(tracker') <= TrackerCapacity
      /\ cache' \in [Kind -> 0 .. MaxVersion]
      /\ TrackerAligned'
      /\ \A i \in DOMAIN queue' : i > StreamDropDepth => queue'[i].class = "control"
      /\ Len(queue') <= StreamDropDepth + ControlCloseDepth
  BY <1>1, <1>2, <1>3, <1>4, QRecorded
<1>6. UNCHANGED <<issued, taken>> BY DEF FlushEnqueued
<1>7. job' = [job EXCEPT !.op = "flush"] BY <1>5 DEF FlushEnqueued
<1>8. job' \in Job /\ job'.op = "flush" BY <1>1, <1>7 DEF Job
<1>9. TypeOK' BY <1>5, <1>6, <1>8 DEF TypeOK, Tracker
<1>10. JobOK' /\ Short' BY <1>5, <1>8 DEF JobOK, Short
<1> QED BY <1>5, <1>9, <1>10

LEMMA QFlushFails ==
    ASSUME QInv, FlushFails
    PROVE  QInv'
<1> USE DEF QInv
<1>1. job.op = "retry" /\ open BY DEF FlushFails, JobOK
<1>2. job' = None /\ UNCHANGED <<queue, tracker, cache, open, issued, taken>>
  BY DEF FlushFails, Done
<1>3. None \in Job /\ None.op = "none" BY DEF None, Job, Class
<1>4. TypeOK' BY <1>2, <1>3 DEF TypeOK
<1>5. TrackerAligned' BY <1>2 DEF TrackerAligned
<1>6. JobOK' /\ Short' BY <1>1, <1>2, <1>3 DEF JobOK, Short
<1> QED BY <1>4, <1>5, <1>6

LEMMA QAck ==
    ASSUME QInv, Ack
    PROVE  QInv'
<1> USE DEF QInv
<1>1. /\ open /\ queue # <<>> /\ queue \in Seq(Message) /\ queue' = Tail(queue)
      /\ UNCHANGED <<tracker, cache, open, job, issued>>
  BY DEF Ack, TypeOK
<1>2. /\ queue' \in Seq(Message) /\ Len(queue') = Len(queue) - 1 /\ Len(queue) \in Nat
      /\ \A i \in 1 .. Len(queue') : queue'[i] = queue[i + 1]
  BY <1>1
<1>3. Head(queue) \in Message BY <1>1
<1>4. KindOf(Head(queue).class) \in Kind /\ Head(queue).version \in 0 .. MaxVersion
  BY <1>3, MessageFacts
<1>5. taken' \in [Kind -> 0 .. MaxVersion] BY <1>4 DEF Ack, TypeOK
<1>6. TypeOK' BY <1>1, <1>2, <1>5, DepthFacts DEF TypeOK
<1>7. tracker \in Seq(Tracker) BY DEF TypeOK, Tracker
<1>8. TrackerAligned' BY <1>1, <1>2, <1>7 DEF TrackerAligned
<1>9. Short' BY <1>1, <1>2, DepthFacts DEF Short
<1>10. JobOK' BY <1>1 DEF JobOK
<1> QED BY <1>6, <1>8, <1>9, <1>10

LEMMA QReconnect ==
    ASSUME QInv, Reconnect
    PROVE  QInv'
<1> USE DEF QInv
<1>1. /\ queue' = <<>> /\ tracker' = <<>> /\ open' = TRUE /\ UNCHANGED job
      /\ job.op = "none"
  BY DEF Reconnect, JobOK, TypeOK, Job
<1>2. TypeOK' BY <1>1, DepthFacts DEF Reconnect, TypeOK
<1>3. TrackerAligned' BY <1>1 DEF TrackerAligned
<1>4. JobOK' /\ Short' BY <1>1, DepthFacts DEF JobOK, Short
<1> QED BY <1>2, <1>3, <1>4

LEMMA QStep == QInv /\ [FlowNext]_flowVars => QInv'
<1> SUFFICES ASSUME QInv, [FlowNext]_flowVars PROVE QInv' OBVIOUS
<1>1. CASE Sends BY <1>1, QSend DEF Sends
<1>2. CASE Calls BY <1>2, QRecheck, QSendEnqueued, QSendFails DEF Calls
<1>3. CASE FlushBegins BY <1>3, QFlushLooks DEF FlushBegins
<1>4. CASE FlushGoesOn
  <2>1. open /\ job.attempt \in 0 .. 2 BY <1>4 DEF FlushGoesOn, QInv, JobOK, TypeOK, Job
  <2> QED BY <1>4, <2>1, QFlushLooks DEF FlushGoesOn
<1>5. CASE FlushEnqueued \/ FlushFails BY <1>5, QFlushEnqueued, QFlushFails
<1>6. CASE Ack \/ Reconnect BY <1>6, QAck, QReconnect
<1>7. CASE UNCHANGED flowVars
  BY <1>7 DEF flowVars, QInv, TypeOK, TrackerAligned, JobOK, Short
<1> QED BY <1>1, <1>2, <1>3, <1>4, <1>5, <1>6, <1>7 DEF FlowNext, Flush

LEMMA QInvHolds == FlowSpec => []QInv
BY QInit, QStep, PTL DEF FlowSpec

LEMMA QInvImplies == QInv => QueuesAgree
<1> SUFFICES ASSUME QInv PROVE NeverFull BY DEF QInv, QueuesAgree
<1> QED BY DepthFacts DEF QInv, TypeOK, Short, Room, NeverFull

\* HaWsQueueTracker, haWsSendWs: however the queue drains while nobody looks, the newest
\* entries of the tracker are the messages still queued, and neither is ever full.
THEOREM TrackerFollows == FlowSpec => []QueuesAgree
BY QInvHolds, QInvImplies, PTL

-----------------------------------------------------------------------------
(* Overload. *)

LEMMA OverloadStep ==
    ASSUME QInv, [FlowNext]_flowVars, job.op = "recheck", ~open'
    PROVE  Cardinality({i \in DOMAIN queue : queue[i].class = "control"}) >= ControlCloseDepth
<1>1. open /\ job # None BY DEF QInv, JobOK, None
<1>2. Recheck
  BY <1>1 DEF FlowNext, Sends, Send, Calls, SendEnqueued, SendFails, Flush, FlushBegins,
              FlushGoesOn, FlushEnqueued, FlushFails, Ack, Reconnect, flowVars
<1>3. Overloads(job.class, Controls(Observed(Len(queue)))) BY <1>1, <1>2 DEF Recheck
<1> QED BY <1>1, <1>3, ReadsDepth DEF QInv, Overloads, Controls

\* HA_WS_CONTROL_CLOSE_DEPTH: a client is closed as overloaded only while that many
\* controls are unacknowledged at that moment.
THEOREM OverloadedWhenClosed == FlowSpec => ClosedOnlyWhenOverloaded
<1>1. QInv /\ [FlowNext]_flowVars =>
          [job.op = "recheck" /\ ~open' =>
              Cardinality({i \in DOMAIN queue : queue[i].class = "control"}) >= ControlCloseDepth]_flowVars
  BY OverloadStep
<1> QED BY <1>1, QInvHolds, PTL DEF FlowSpec, ClosedOnlyWhenOverloaded

-----------------------------------------------------------------------------
(* Snapshots. *)

Pending(k) == job.op = "enqueue" /\ job.class \in Replaceable /\ KindOf(job.class) = k

\* The versions of a kind, in their order: taken, queued, cached, being enqueued.
Ranked(k) ==
    /\ taken[k] <= issued[k] /\ cache[k] <= issued[k]
    /\ cache[k] # 0 => taken[k] < cache[k]
    /\ Pending(k) => taken[k] < issued[k] /\ cache[k] < issued[k]
    /\ \A i \in DOMAIN queue : Snapshot(queue[i], k) =>
           /\ queue[i].version <= issued[k]
           /\ Pending(k) => queue[i].version < issued[k]

SInv == (open => \A k \in Kind : Ranked(k)) /\ SnapshotsKept

\* One kind, all together.
Snapped(k) ==
    /\ Ranked(k)
    /\ \A i \in DOMAIN queue : Snapshot(queue[i], k) =>
           /\ taken[k] < queue[i].version
           /\ \A j \in DOMAIN queue :
                  i < j /\ Snapshot(queue[j], k) => queue[i].version < queue[j].version
           /\ cache[k] # 0 => queue[i].version < cache[k]
    /\ \/ issued[k] \in {taken[k], cache[k]}
       \/ \E i \in DOMAIN queue : Snapshot(queue[i], k) /\ queue[i].version = issued[k]
       \/ Pending(k)

LEMMA SInvIsKept == SInv <=> (open => \A k \in Kind : Snapped(k))
BY DEF SInv, SnapshotsKept, Ordered, NewestNotLost, Snapped, Pending

LEMMA SInvIsKeptNext == SInv' <=> (open' => \A k \in Kind : Snapped(k)')
BY DEF SInv, SnapshotsKept, Ordered, NewestNotLost, Snapped, Pending

LEMMA SInit == FlowInit => SInv
<1> SUFFICES ASSUME FlowInit PROVE SInv OBVIOUS
<1> DOMAIN queue = {} BY DEF FlowInit
<1> QED BY SInvIsKept DEF FlowInit, Snapped, Ranked, Pending, None

\* A new snapshot: the newest version, cached or on its way to the queue.
LEMMA SSend ==
    ASSUME QInv, SInv, NEW c \in Class, Send(c), NEW k \in Kind
    PROVE  Snapped(k)'
<1>1. /\ open /\ job = None /\ UNCHANGED <<queue, taken>>
      /\ Snapped(k)
  BY SInvIsKept DEF Send
<1>2. ~Pending(k) BY <1>1 DEF Pending, None
<1>3. queue \in Seq(Message) /\ issued \in [Kind -> Nat] /\ cache \in [Kind -> Nat] /\ taken \in [Kind -> Nat]
  BY DepthFacts DEF QInv, TypeOK
<1>4. \A i \in DOMAIN queue : queue[i].version \in Nat
  <2>1. \A n \in Message : n.version \in Nat
    BY DepthFacts DEF Message
  <2> QED
    BY <1>3, <2>1
<1>5. CASE c \in Replaceable /\ KindOf(c) = k
  <2>1. issued' = [issued EXCEPT ![k] = @ + 1] BY <1>5 DEF Send
  <2>2. issued'[k] = issued[k] + 1 BY <1>3, <2>1
  <2>3. \/ job' = None /\ cache' = [cache EXCEPT ![k] = issued'[k]]
        \/ job' = [op |-> "enqueue", class |-> c, attempt |-> 0] /\ cache' = cache
    BY <1>5 DEF Send, Done, Cached, None, Overloads, Replaceable
  <2>4. CASE job' = None /\ cache' = [cache EXCEPT ![k] = issued'[k]]
    <3>1. cache'[k] = issued[k] + 1 BY <1>3, <2>2, <2>4
    <3>2. ~Pending(k)' BY <2>4 DEF Pending, None
    <3> QED BY <1>1, <1>2, <1>3, <1>4, <2>2, <3>1, <3>2 DEF Snapped, Ranked, Snapshot
  <2>5. CASE job' = [op |-> "enqueue", class |-> c, attempt |-> 0] /\ cache' = cache
    <3>1. Pending(k)' BY <1>5, <2>5 DEF Pending
    <3> QED BY <1>1, <1>2, <1>3, <1>4, <2>2, <2>5, <3>1 DEF Snapped, Ranked, Snapshot
  <2> QED BY <2>3, <2>4, <2>5
<1>6. CASE ~(c \in Replaceable /\ KindOf(c) = k)
  <2>1. issued'[k] = issued[k]
    BY <1>3, <1>6 DEF Send
  <2>2. cache'[k] = cache[k]
    BY <1>3, <1>6 DEF Send, Cached
  <2>3. \/ job' = None
        \/ \E o \in {"recheck", "enqueue"} : job' = [op |-> o, class |-> c, attempt |-> 0]
    BY DEF Send, Done, None
  <2>4. ~Pending(k)' BY <1>6, <2>3 DEF Pending, None
  <2> QED BY <1>1, <1>2, <1>3, <2>1, <2>2, <2>4 DEF Snapped, Ranked, Snapshot
<1> QED BY <1>5, <1>6

\* A message is queued: a snapshot is newer than the queued and the cached ones, or is the
\* cached one, and empties the cache.
LEMMA SRecorded ==
    ASSUME QInv, SInv, open, NEW m \in Message, Len(tracker) < Room(m.class), Recorded(m),
           UNCHANGED <<issued, taken>>, NEW k \in Kind, ~Pending(k)',
           Pending(k) => Snapshot(m, k),
           Snapshot(m, k) => /\ m.version <= issued[k] /\ taken[k] < m.version
                             /\ m.version = issued[k] \/ (m.version = cache[k] /\ ~Pending(k))
                             /\ \A i \in DOMAIN queue :
                                    Snapshot(queue[i], k) => queue[i].version < m.version
    PROVE  Snapped(k)'
<1>1. Snapped(k) BY SInvIsKept
<1>2. queue' = Append(queue, m) BY QRecorded
<1>3. queue \in Seq(Message) /\ issued \in [Kind -> Nat] /\ cache \in [Kind -> Nat] /\ taken \in [Kind -> Nat]
  BY DepthFacts DEF QInv, TypeOK
<1>4. /\ m.version \in Nat
      /\ \A i \in DOMAIN queue : queue[i].version \in Nat
  <2>1. \A n \in Message : n.version \in Nat BY MessageFacts, DepthFacts
  <2> QED BY <1>3, <2>1
<1>5. /\ DOMAIN queue' = 1 .. Len(queue) + 1 /\ DOMAIN queue = 1 .. Len(queue)
      /\ Len(queue) \in Nat
      /\ queue'[Len(queue) + 1] = m
      /\ \A i \in DOMAIN queue : i \in DOMAIN queue' /\ queue'[i] = queue[i]
  BY <1>2, <1>3
<1>6. cache'[k] = IF Snapshot(m, k) THEN 0 ELSE cache[k]
  <2>1. Len(tracker) < TrackerCapacity
    BY DepthFacts DEF Room, QInv, TypeOK
  <2>2. KindOf(m.class) \in Kind BY MessageFacts
  <2> QED BY <1>3, <2>1, <2>2 DEF Recorded, Snapshot
<1>7. \A i \in DOMAIN queue' : i \in DOMAIN queue \/ i = Len(queue) + 1 BY <1>5
<1>8. UNCHANGED <<issued, taken>> OBVIOUS
<1>9. CASE Snapshot(m, k)
  <2>1. Ranked(k)' BY <1>1, <1>3, <1>4, <1>5, <1>6, <1>7, <1>8, <1>9 DEF Snapped, Ranked, Snapshot
  <2>2. \A i \in DOMAIN queue' : Snapshot(queue'[i], k) =>
            /\ taken'[k] < queue'[i].version
            /\ \A j \in DOMAIN queue' :
                  i < j /\ Snapshot(queue'[j], k) => queue'[i].version < queue'[j].version
            /\ cache'[k] # 0 => queue'[i].version < cache'[k]
    <3> SUFFICES ASSUME NEW i \in DOMAIN queue', Snapshot(queue'[i], k)
                 PROVE  /\ taken'[k] < queue'[i].version
                        /\ \A j \in DOMAIN queue' :
                              i < j /\ Snapshot(queue'[j], k) => queue'[i].version < queue'[j].version
      BY <1>6, <1>9
    <3>1. CASE i = Len(queue) + 1
      <4>1. \A j \in DOMAIN queue' : ~(i < j) BY <1>5, <3>1
      <4> QED BY <1>5, <1>8, <1>9, <3>1, <4>1
    <3>2. CASE i \in DOMAIN queue
      <4>1. queue'[i] = queue[i] BY <1>5, <3>2
      <4>2. taken[k] < queue[i].version BY <1>1, <3>2, <4>1 DEF Snapped
      <4>3. ASSUME NEW j \in DOMAIN queue', i < j, Snapshot(queue'[j], k)
            PROVE  queue'[i].version < queue'[j].version
        <5>1. CASE j = Len(queue) + 1 BY <1>5, <1>9, <3>2, <4>1, <5>1
        <5>2. CASE j \in DOMAIN queue BY <1>1, <1>5, <3>2, <4>1, <4>3, <5>2 DEF Snapped
        <5> QED BY <1>7, <5>1, <5>2
      <4> QED BY <1>8, <4>1, <4>2, <4>3
    <3> QED BY <1>7, <3>1, <3>2
  <2>3. \/ issued'[k] \in {taken'[k], cache'[k]}
        \/ \E i \in DOMAIN queue' : Snapshot(queue'[i], k) /\ queue'[i].version = issued'[k]
    <3>1. CASE m.version = issued[k] BY <1>5, <1>8, <1>9, <3>1
    <3>2. CASE m.version = cache[k] /\ ~Pending(k)
      <4>1. CASE issued[k] = cache[k] BY <1>5, <1>8, <1>9, <3>2, <4>1
      <4>2. CASE issued[k] = taken[k] BY <1>8, <4>2
      <4>3. CASE \E i \in DOMAIN queue : Snapshot(queue[i], k) /\ queue[i].version = issued[k]
        BY <1>5, <1>8, <4>3
      <4> QED BY <1>1, <3>2, <4>1, <4>2, <4>3 DEF Snapped
    <3> QED BY <1>9, <3>1, <3>2
  <2> QED BY <2>1, <2>2, <2>3 DEF Snapped, Snapshot
<1>10. CASE ~Snapshot(m, k)
  <2>1. Ranked(k)' BY <1>1, <1>3, <1>4, <1>5, <1>6, <1>7, <1>8, <1>10 DEF Snapped, Ranked, Snapshot
  <2>2. \A i \in DOMAIN queue' : Snapshot(queue'[i], k) =>
            /\ taken'[k] < queue'[i].version
            /\ \A j \in DOMAIN queue' :
                  i < j /\ Snapshot(queue'[j], k) => queue'[i].version < queue'[j].version
            /\ cache'[k] # 0 => queue'[i].version < cache'[k]
    BY <1>1, <1>3, <1>4, <1>5, <1>6, <1>7, <1>8, <1>10 DEF Snapped
  <2>3. \/ issued'[k] \in {taken'[k], cache'[k]}
        \/ \E i \in DOMAIN queue' : Snapshot(queue'[i], k) /\ queue'[i].version = issued'[k]
    BY <1>1, <1>5, <1>6, <1>8, <1>10 DEF Snapped
  <2> QED BY <2>1, <2>2, <2>3 DEF Snapped, Snapshot
<1> QED BY <1>9, <1>10

LEMMA SSendEnqueued ==
    ASSUME QInv, SInv, SendEnqueued, NEW k \in Kind
    PROVE  Snapped(k)'
<1> DEFINE m == [class |-> job.class,
                 version |-> IF job.class \in Replaceable THEN issued[KindOf(job.class)] ELSE 0]
<1>1. job.op = "enqueue" /\ open /\ job.class \in Class /\ job' = None /\ UNCHANGED <<issued, taken>>
  BY DEF SendEnqueued, QInv, JobOK, TypeOK, Job, Done
<1>2. KindOf(job.class) \in Kind BY DEF KindOf, Kind
<1>3. m \in Message
  BY <1>1, <1>2, DepthFacts DEF QInv, Message, JobOK, TypeOK, Class, Replaceable
<1>4. Len(tracker) < Room(m.class) BY <1>1 DEF QInv, Short
<1>5. Recorded(m) BY DEF SendEnqueued
<1>6. (Pending(k) => Snapshot(m, k)) /\ (Snapshot(m, k) => Pending(k))
  BY <1>1 DEF Snapshot, Pending
<1>7. Snapshot(m, k) => m.version = issued[k] BY DEF Snapshot
<1>8. Snapped(k) BY <1>1, SInvIsKept
<1>9. ~Pending(k)' BY <1>1 DEF Pending, None
<1> HIDE DEF m
<1>10. issued \in [Kind -> Nat] BY DepthFacts DEF QInv, TypeOK
<1>11. Snapshot(m, k) =>
            /\ m.version <= issued[k] /\ taken[k] < m.version
            /\ m.version = issued[k]
            /\ \A i \in DOMAIN queue : Snapshot(queue[i], k) => queue[i].version < m.version
  BY <1>6, <1>7, <1>8, <1>10 DEF Snapped, Ranked
<1> QED BY <1>1, <1>3, <1>4, <1>5, <1>6, <1>9, <1>11, SRecorded

LEMMA SFlushEnqueued ==
    ASSUME QInv, SInv, FlushEnqueued, NEW k \in Kind
    PROVE  open' => Snapped(k)'
<1> SUFFICES ASSUME open' PROVE Snapped(k)' OBVIOUS
<1> DEFINE m == [class |-> job.class, version |-> cache[job.class]]
<1>1. /\ job.op = "retry" /\ open /\ job.class \in Kind /\ cache[job.class] # 0 /\ job \in Job
      /\ UNCHANGED <<issued, taken>> /\ job' = [job EXCEPT !.op = "flush"]
  BY DEF FlushEnqueued, QInv, JobOK, TypeOK
<1>2. m \in Message
  BY <1>1, DepthFacts DEF QInv, Message, TypeOK, Kind, Replaceable
<1>3. Len(tracker) < Room(m.class) BY <1>1 DEF QInv, Short
<1>4. Recorded(m) BY DEF FlushEnqueued
<1>5. Snapshot(m, k) <=> job.class = k BY <1>1 DEF Snapshot, Kind, KindOf, Replaceable
<1>6. ~Pending(k) /\ ~Pending(k)' BY <1>1 DEF Pending, Job
<1>7. Snapped(k) BY <1>1, SInvIsKept
<1>8. m.version = cache[job.class] OBVIOUS
<1> HIDE DEF m
<1>9. Snapshot(m, k) =>
            /\ m.version <= issued[k] /\ taken[k] < m.version
            /\ m.version = cache[k]
            /\ \A i \in DOMAIN queue : Snapshot(queue[i], k) => queue[i].version < m.version
  BY <1>1, <1>5, <1>7, <1>8 DEF Snapped, Ranked
<1> QED BY <1>1, <1>2, <1>3, <1>4, <1>6, <1>9, SRecorded

\* A snapshot the library refused is cached; it is newer than all that is queued.
LEMMA SSendFails ==
    ASSUME QInv, SInv, SendFails, NEW k \in Kind
    PROVE  Snapped(k)'
<1>1. /\ job.op = "enqueue" /\ open /\ job' = None /\ UNCHANGED <<queue, tracker, issued, taken>>
  BY DEF SendFails, QInv, JobOK, Done
<1>2. issued \in [Kind -> Nat] /\ cache \in [Kind -> Nat] /\ taken \in [Kind -> Nat]
  BY DepthFacts DEF QInv, TypeOK
<1>3. Snapped(k) BY <1>1, SInvIsKept
<1>4. ~Pending(k)' BY <1>1 DEF Pending, None
<1>5. cache'[k] = IF Pending(k) THEN issued[k] ELSE cache[k]
  BY <1>1, <1>2 DEF SendFails, Pending
<1> QED BY <1>1, <1>2, <1>3, <1>4, <1>5 DEF Snapped, Ranked, Snapshot

\* The oldest message is taken; those behind it are newer.
LEMMA SAck ==
    ASSUME QInv, SInv, Ack, NEW k \in Kind
    PROVE  Snapped(k)'
<1>1. /\ open /\ queue # <<>> /\ queue \in Seq(Message) /\ queue' = Tail(queue)
      /\ UNCHANGED <<cache, job, issued>> /\ Snapped(k)
  BY SInvIsKept DEF Ack, QInv, TypeOK
<1>2. /\ Len(queue) \in Nat \ {0} /\ DOMAIN queue = 1 .. Len(queue)
      /\ DOMAIN queue' = 1 .. Len(queue) - 1
      /\ \A i \in DOMAIN queue' : i + 1 \in DOMAIN queue /\ queue'[i] = queue[i + 1]
      /\ Head(queue) = queue[1] /\ 1 \in DOMAIN queue
  BY <1>1
<1>3. issued \in [Kind -> Nat] /\ cache \in [Kind -> Nat] /\ taken \in [Kind -> Nat]
  BY DepthFacts DEF QInv, TypeOK
<1>4. \A i \in DOMAIN queue : queue[i].version \in Nat
  BY <1>1, MessageFacts, DepthFacts
<1>5. Pending(k)' <=> Pending(k) BY <1>1 DEF Pending
<1>6. taken'[k] = IF Snapshot(queue[1], k) THEN queue[1].version ELSE taken[k]
  BY <1>2, <1>3 DEF Ack, Snapshot
<1>7. \A i \in DOMAIN queue' : \A j \in DOMAIN queue' : i < j => i + 1 < j + 1
  BY <1>2
<1>8. \A i \in DOMAIN queue' : 1 < i + 1 BY <1>2
<1>9. Ranked(k)' BY <1>1, <1>2, <1>3, <1>4, <1>5, <1>6 DEF Snapped, Ranked, Snapshot
<1>10. \A i \in DOMAIN queue' : Snapshot(queue'[i], k) =>
            /\ taken'[k] < queue'[i].version
            /\ \A j \in DOMAIN queue' :
                  i < j /\ Snapshot(queue'[j], k) => queue'[i].version < queue'[j].version
            /\ cache'[k] # 0 => queue'[i].version < cache'[k]
  BY <1>1, <1>2, <1>6, <1>7, <1>8 DEF Snapped
<1>11. \/ issued'[k] \in {taken'[k], cache'[k]}
       \/ \E i \in DOMAIN queue' : Snapshot(queue'[i], k) /\ queue'[i].version = issued'[k]
       \/ Pending(k)'
  <2>1. CASE Snapshot(queue[1], k) /\ queue[1].version = issued[k] BY <1>1, <1>6, <2>1
  <2>2. CASE \E i \in DOMAIN queue : i # 1 /\ Snapshot(queue[i], k) /\ queue[i].version = issued[k]
    <3>1. PICK i \in DOMAIN queue : i # 1 /\ Snapshot(queue[i], k) /\ queue[i].version = issued[k]
      BY <2>2
    <3>2. i - 1 \in DOMAIN queue' /\ (i - 1) + 1 = i BY <1>2, <3>1
    <3>3. queue'[i - 1] = queue[i] BY <1>2, <3>2
    <3> QED BY <1>1, <3>1, <3>2, <3>3
  <2>3. CASE issued[k] = taken[k]
    <3>1. ~Snapshot(queue[1], k)
      <4> SUFFICES ASSUME Snapshot(queue[1], k) PROVE FALSE OBVIOUS
      <4>1. taken[k] < queue[1].version /\ queue[1].version <= issued[k]
        BY <1>1, <1>2 DEF Snapped, Ranked
      <4> QED BY <1>2, <1>3, <1>4, <2>3, <4>1
    <3> QED BY <1>1, <1>6, <2>3, <3>1
  <2>4. CASE issued[k] = cache[k] \/ Pending(k) BY <1>1, <1>5, <2>4
  <2> QED BY <1>1, <2>1, <2>2, <2>3, <2>4 DEF Snapped
<1> QED BY <1>9, <1>10, <1>11 DEF Snapped, Snapshot

\* The other steps leave queue, cache and the two counts, and end no enqueueing.
LEMMA SOthers ==
    ASSUME QInv, SInv, NEW k \in Kind, open', open,
           UNCHANGED <<queue, cache, issued, taken>>, Pending(k)' <=> Pending(k)
    PROVE  Snapped(k)'
BY SInvIsKept DEF Snapped, Ranked, Snapshot

LEMMA SStep == QInv /\ SInv /\ [FlowNext]_flowVars => SInv'
<1> SUFFICES ASSUME QInv, SInv, [FlowNext]_flowVars, open', NEW k \in Kind
             PROVE  Snapped(k)'
  BY SInvIsKeptNext
<1>1. CASE Sends BY <1>1, SSend DEF Sends
<1>2. CASE SendEnqueued \/ SendFails BY <1>2, SSendEnqueued, SSendFails
<1>3. CASE Recheck
  <2>1. /\ open /\ job.op = "recheck" /\ job.class = "control" /\ job \in Job
        /\ UNCHANGED <<queue, cache, issued, taken>>
    BY <1>3 DEF Recheck, QInv, JobOK, TypeOK
  <2>2. job' = None \/ job' = [job EXCEPT !.op = "enqueue"] BY <1>3 DEF Recheck, Done
  <2>3. ~Pending(k) /\ ~Pending(k)'
    BY <2>1, <2>2 DEF Pending, None, Job, Replaceable
  <2> QED BY <2>1, <2>3, SOthers
<1>4. CASE FlushBegins \/ FlushGoesOn \/ FlushFails
  <2>1. /\ open /\ UNCHANGED <<queue, cache, issued, taken>>
        /\ job.op \in {"none", "flush", "retry"}
    <3>1. CASE FlushBegins BY <3>1 DEF FlushBegins, FlushLooks, None
    <3>2. CASE FlushGoesOn BY <3>2 DEF FlushGoesOn, FlushLooks, QInv, JobOK
    <3>3. CASE FlushFails BY <3>3 DEF FlushFails, QInv, JobOK
    <3> QED BY <1>4, <3>1, <3>2, <3>3
  <2>2. job'.op \in {"none", "retry"}
    <3>1. \A attempt : FlushLooks(attempt) => job'.op \in {"none", "retry"}
      BY DEF FlushLooks, Done, None
    <3>2. CASE FlushBegins BY <3>1, <3>2 DEF FlushBegins
    <3>3. CASE FlushGoesOn BY <3>1, <3>3 DEF FlushGoesOn
    <3>4. CASE FlushFails BY <3>4 DEF FlushFails, Done, None
    <3> QED BY <1>4, <3>2, <3>3, <3>4
  <2>3. ~Pending(k) /\ ~Pending(k)' BY <2>1, <2>2 DEF Pending
  <2> QED BY <2>1, <2>3, SOthers
<1>5. CASE FlushEnqueued BY <1>5, SFlushEnqueued
<1>6. CASE Ack BY <1>6, SAck
<1>7. CASE Reconnect
  <2>1. job.op = "none" /\ job' = job BY <1>7 DEF Reconnect, QInv, JobOK, TypeOK, Job
  <2>2. ~Pending(k)' BY <2>1 DEF Pending
  <2>3. DOMAIN queue' = {} /\ issued'[k] = 0 /\ taken'[k] = 0 /\ cache'[k] = 0
    BY <1>7 DEF Reconnect
  <2> QED BY <2>2, <2>3 DEF Snapped, Ranked
<1>8. CASE UNCHANGED flowVars BY <1>8, SOthers DEF flowVars, Pending
<1> QED BY <1>1, <1>2, <1>3, <1>4, <1>5, <1>6, <1>7, <1>8 DEF FlowNext, Calls, Flush

\* haWsSendWs, haWsDirtyRetireSuperseded: however snapshots are coalesced, refused, queued
\* and flushed, a client gets those of one kind in their order, and the newest is not lost.
THEOREM SnapshotsInOrder == FlowSpec => []SnapshotsKept
<1>1. SInv => SnapshotsKept BY DEF SInv
<1> QED BY <1>1, SInit, SStep, QInvHolds, PTL DEF FlowSpec

=============================================================================
