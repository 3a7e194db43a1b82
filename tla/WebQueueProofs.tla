---------------------------- MODULE WebQueueProofs ----------------------------
(***************************************************************************)
(* The inductive invariant of the background uploads, and from it: every   *)
(* item the server accepted can be retried, overlapping runs keep the      *)
(* selection, and what the page reports is so.                             *)
(***************************************************************************)
EXTENDS WebQueue, FiniteSetTheorems, WellFoundedInduction, TLAPS

-----------------------------------------------------------------------------
(* Induction over the natural numbers, in terms of sets *)

LEMMA LeastNumber ==
    ASSUME NEW T \in SUBSET Nat, T # {}
    PROVE  \E n \in T : \A m \in T : n <= m
<1>1. PICK n \in T : \A m \in T : ~(<<m, n>> \in OpToRel(<, Nat))
  BY NatLessThanWellFounded, WFMin
<1>2. ASSUME NEW m \in T PROVE ~(m < n)
  BY <1>1, <1>2 DEF OpToRel
<1> QED
  <2>1. \A m \in T : n <= m
    <3> TAKE m \in T
    <3>1. m \in Nat /\ n \in Nat
      OBVIOUS
    <3> QED BY <3>1, <1>2
  <2> QED BY <2>1

LEMMA InductionOnSet ==
    ASSUME NEW T, 0 \in T, \A n \in Nat : n \in T => n + 1 \in T
    PROVE  \A n \in Nat : n \in T
<1> DEFINE F == Nat \ T
<1>1. SUFFICES ASSUME F # {} PROVE FALSE
  OBVIOUS
<1>2. PICK n \in F : \A m \in F : n <= m
  BY <1>1, LeastNumber
<1>3. n \in Nat /\ n # 0
  BY <1>2
<1>4. n - 1 \in Nat /\ (n - 1) + 1 = n /\ ~(n <= n - 1)
  BY <1>3
<1>5. n - 1 \in T
  BY <1>2, <1>4
<1> QED BY <1>4, <1>5

-----------------------------------------------------------------------------
(* Lists of different photos *)

LEMMA SelectionFacts ==
    ASSUME NEW s \in Selections
    PROVE  /\ s \in Seq(Photo)
           /\ Len(s) \in Nat
           /\ DOMAIN s = 1 .. Len(s)
           /\ \A i \in 1 .. Len(s) : s[i] \in Photo
           /\ \A i, j \in 1 .. Len(s) : s[i] = s[j] => i = j
           /\ Photos(s) = {s[i] : i \in 1 .. Len(s)}
BY DEF Selections, Photos

LEMMA EmptySelection == <<>> \in Selections /\ Photos(<<>>) = {}
BY DEF Selections, Photos

LEMMA AppendSelection ==
    ASSUME NEW s \in Selections, NEW p \in Photo, p \notin Photos(s)
    PROVE  /\ Append(s, p) \in Selections
           /\ Photos(Append(s, p)) = Photos(s) \cup {p}
<1> DEFINE t == Append(s, p)
<1>1. /\ t \in Seq(Photo) /\ Len(t) = Len(s) + 1 /\ Len(s) \in Nat
      /\ \A i \in 1 .. Len(s) : t[i] = s[i]
      /\ t[Len(s) + 1] = p
      /\ DOMAIN t = 1 .. Len(t)
  BY SelectionFacts
<1>2. \A i, j \in 1 .. Len(t) : t[i] = t[j] => i = j
  BY <1>1, SelectionFacts
<1>3. t \in Selections
  BY <1>1, <1>2 DEF Selections
<1>4. Photos(t) = {t[i] : i \in 1 .. Len(t)}
  BY <1>3, SelectionFacts
<1>5. {t[i] : i \in 1 .. Len(t)} = {s[i] : i \in 1 .. Len(s)} \cup {p}
  BY <1>1
<1> HIDE DEF t
<1> QED BY <1>3, <1>4, <1>5, SelectionFacts DEF t

LEMMA TailSelection ==
    ASSUME NEW s \in Selections, s # <<>>
    PROVE  /\ Head(s) \in Photo /\ Head(s) = s[1]
           /\ Tail(s) \in Selections
           /\ Len(s) >= 1
           /\ Len(Tail(s)) = Len(s) - 1
           /\ \A i \in 1 .. Len(s) - 1 : Tail(s)[i] = s[i + 1]
<1>1. s \in Seq(Photo)
  BY SelectionFacts
<1>2. /\ Head(s) \in Photo /\ Head(s) = s[1]
      /\ Len(s) \in Nat /\ Len(s) >= 1
      /\ Tail(s) \in Seq(Photo)
      /\ Len(Tail(s)) = Len(s) - 1
      /\ \A i \in 1 .. Len(s) - 1 : Tail(s)[i] = s[i + 1]
      /\ DOMAIN Tail(s) = 1 .. Len(s) - 1
  BY <1>1
<1>3. ASSUME NEW i \in 1 .. Len(s) - 1, NEW j \in 1 .. Len(s) - 1, Tail(s)[i] = Tail(s)[j]
      PROVE  i = j
  <2>1. s[i + 1] = s[j + 1] /\ i + 1 \in 1 .. Len(s) /\ j + 1 \in 1 .. Len(s)
    BY <1>2, <1>3
  <2>2. i + 1 = j + 1
    BY <2>1, SelectionFacts
  <2> QED BY <2>2
<1>4. Tail(s) \in Selections
  BY <1>2, <1>3 DEF Selections
<1> QED BY <1>2, <1>4

LEMMA PrefixSelection ==
    ASSUME NEW s \in Selections, NEW n \in 0 .. Len(s)
    PROVE  /\ SubSeq(s, 1, n) \in Selections
           /\ Len(SubSeq(s, 1, n)) = n
           /\ \A i \in 1 .. n : SubSeq(s, 1, n)[i] = s[i]
<1>1. /\ s \in Seq(Photo) /\ Len(s) \in Nat
  BY SelectionFacts
<1>2. /\ SubSeq(s, 1, n) \in Seq(Photo)
      /\ Len(SubSeq(s, 1, n)) = n
      /\ \A i \in 1 .. n : SubSeq(s, 1, n)[i] = s[i]
      /\ DOMAIN SubSeq(s, 1, n) = 1 .. n
  BY <1>1
<1>3. ASSUME NEW i \in 1 .. n, NEW j \in 1 .. n, SubSeq(s, 1, n)[i] = SubSeq(s, 1, n)[j]
      PROVE  i = j
  <2>1. s[i] = s[j] /\ i \in 1 .. Len(s) /\ j \in 1 .. Len(s)
    BY <1>1, <1>2, <1>3
  <2> QED BY <2>1, SelectionFacts
<1>4. SubSeq(s, 1, n) \in Selections
  BY <1>2, <1>3 DEF Selections
<1> QED BY <1>2, <1>4

(* The recursion of Without has a solution.                                *)
Kept(s, photos, g, m) ==
    \A n \in 0 .. m :
        g[n] = IF n = 0 THEN <<>>
               ELSE IF s[n] \in photos THEN g[n - 1]
               ELSE Append(g[n - 1], s[n])

LEMMA KeptNext ==
    ASSUME NEW s \in Seq(Photo), NEW photos, NEW g, Kept(s, photos, g, Len(s)),
           NEW n \in Nat, n + 1 <= Len(s)
    PROVE  g[n + 1] = IF s[n + 1] \in photos THEN g[n] ELSE Append(g[n], s[n + 1])
<1>1. n + 1 \in 0 .. Len(s) /\ n + 1 # 0 /\ (n + 1) - 1 = n
  OBVIOUS
<1> DEFINE k == n + 1
<1>2. g[k] = IF k = 0 THEN <<>>
             ELSE IF s[k] \in photos THEN g[k - 1]
             ELSE Append(g[k - 1], s[k])
  BY <1>1 DEF Kept
<1> QED BY <1>1, <1>2

LEMMA KeptExists ==
    ASSUME NEW s \in Seq(Photo), NEW photos, NEW m \in Nat, m <= Len(s)
    PROVE  \E g \in [0 .. m -> Seq(Photo)] : Kept(s, photos, g, m)
<1> DEFINE T == {k \in Nat : k <= Len(s) =>
                     \E g \in [0 .. k -> Seq(Photo)] : Kept(s, photos, g, k)}
<1>1. 0 \in T
  <2>1. [k \in 0 .. 0 |-> <<>>] \in [0 .. 0 -> Seq(Photo)]
    OBVIOUS
  <2>2. Kept(s, photos, [k \in 0 .. 0 |-> <<>>], 0)
    BY DEF Kept
  <2> QED BY <2>1, <2>2
<1>2. ASSUME NEW k \in Nat, k \in T PROVE k + 1 \in T
  <2>1. SUFFICES ASSUME k + 1 <= Len(s)
                 PROVE  \E g \in [0 .. k + 1 -> Seq(Photo)] : Kept(s, photos, g, k + 1)
    OBVIOUS
  <2>2. PICK g \in [0 .. k -> Seq(Photo)] : Kept(s, photos, g, k)
    BY <1>2, <2>1
  <2> DEFINE next == IF s[k + 1] \in photos THEN g[k] ELSE Append(g[k], s[k + 1])
             h == [n \in 0 .. k + 1 |-> IF n = k + 1 THEN next ELSE g[n]]
  <2>3. s[k + 1] \in Photo /\ g[k] \in Seq(Photo)
    BY <2>1
  <2>4. next \in Seq(Photo)
    BY <2>3
  <2>5. h \in [0 .. k + 1 -> Seq(Photo)]
    BY <2>4
  <2>6. h[k + 1] = next /\ \A n \in 0 .. k : h[n] = g[n]
    OBVIOUS
  <2> HIDE DEF h
  <2>7. Kept(s, photos, h, k + 1)
    <3>1. ASSUME NEW n \in 0 .. k + 1
          PROVE h[n] = IF n = 0 THEN <<>>
                       ELSE IF s[n] \in photos THEN h[n - 1]
                       ELSE Append(h[n - 1], s[n])
      <4>1. CASE n = k + 1
        BY <4>1, <2>6
      <4>2. CASE n # k + 1
        <5>1. n \in 0 .. k /\ (n # 0 => n - 1 \in 0 .. k)
          BY <4>2
        <5> QED BY <5>1, <2>6, <2>2 DEF Kept
      <4> QED BY <4>1, <4>2
    <3> QED BY <3>1 DEF Kept
  <2> QED BY <2>5, <2>7
<1> HIDE DEF T
<1>3. m \in T
  BY <1>1, <1>2, InductionOnSet
<1> QED BY <1>3 DEF T

LEMMA WithoutKept ==
    ASSUME NEW s \in Seq(Photo), NEW photos
    PROVE  \E g \in [0 .. Len(s) -> Seq(Photo)] :
               Kept(s, photos, g, Len(s)) /\ Without(s, photos) = g[Len(s)]
<1> DEFINE F(g) == [n \in 0 .. Len(s) |-> IF n = 0 THEN <<>>
                                  ELSE IF s[n] \in photos THEN g[n - 1]
                                  ELSE Append(g[n - 1], s[n])]
           kept == CHOOSE g : g = F(g)
<1>0. Len(s) \in Nat /\ Len(s) <= Len(s)
  OBVIOUS
<1>1. PICK g \in [0 .. Len(s) -> Seq(Photo)] : Kept(s, photos, g, Len(s))
  BY <1>0, KeptExists
<1>2. g = F(g)
  BY <1>1 DEF Kept
<1>3. kept = F(kept)
  BY <1>2
<1>4. Without(s, photos) = kept[Len(s)]
  BY DEF Without
<1> HIDE DEF kept
<1>5. \A n \in 0 .. Len(s) : kept[n] = F(kept)[n]
  BY <1>3
<1>6. Kept(s, photos, kept, Len(s))
  BY <1>5 DEF Kept
<1>7. \A n \in Nat : n <= Len(s) => kept[n] \in Seq(Photo)
  <2> DEFINE T == {n \in Nat : n <= Len(s) => kept[n] \in Seq(Photo)}
  <2>1. 0 \in T
    <3>1. 0 \in 0 .. Len(s)
      BY <1>0
    <3>2. kept[0] = <<>>
      BY <1>6, <3>1 DEF Kept
    <3>3. <<>> \in Seq(Photo)
      OBVIOUS
    <3> QED BY <3>2, <3>3
  <2>2. ASSUME NEW n \in Nat, n \in T PROVE n + 1 \in T
    <3>1. SUFFICES ASSUME n + 1 <= Len(s) PROVE kept[n + 1] \in Seq(Photo)
      OBVIOUS
    <3>2. kept[n] \in Seq(Photo) /\ s[n + 1] \in Photo
      BY <2>2, <3>1
    <3>3. kept[n + 1] = IF s[n + 1] \in photos THEN kept[n] ELSE Append(kept[n], s[n + 1])
      BY <1>6, <3>1, KeptNext
    <3> QED BY <3>2, <3>3
  <2> HIDE DEF T
  <2>3. \A n \in Nat : n \in T
    BY <2>1, <2>2, InductionOnSet
  <2> QED BY <2>3 DEF T
<1>8. kept \in [0 .. Len(s) -> Seq(Photo)]
  BY <1>3, <1>7
<1> QED BY <1>4, <1>6, <1>8

(* Without leaves a list of different photos, and takes out the given      *)
(* ones and no other.                                                      *)
LEMMA WithoutSelection ==
    ASSUME NEW s \in Selections, NEW photos
    PROVE  /\ Without(s, photos) \in Selections
           /\ Photos(Without(s, photos)) = Photos(s) \ photos
<1>1. s \in Seq(Photo) /\ Len(s) \in Nat
  BY SelectionFacts
<1>2. PICK g \in [0 .. Len(s) -> Seq(Photo)] :
          Kept(s, photos, g, Len(s)) /\ Without(s, photos) = g[Len(s)]
  BY <1>1, WithoutKept
<1> DEFINE First(n) == {s[i] : i \in 1 .. n}
           T == {n \in Nat : n <= Len(s) =>
                     g[n] \in Selections /\ Photos(g[n]) = First(n) \ photos}
<1>3. 0 \in T
  <2>1. g[0] = <<>>
    BY <1>1, <1>2 DEF Kept
  <2> QED BY <2>1, EmptySelection
<1>4. ASSUME NEW n \in Nat, n \in T PROVE n + 1 \in T
  <2>1. SUFFICES ASSUME n + 1 <= Len(s)
                 PROVE  g[n + 1] \in Selections /\ Photos(g[n + 1]) = First(n + 1) \ photos
    OBVIOUS
  <2>2. g[n] \in Selections /\ Photos(g[n]) = First(n) \ photos
    BY <1>4, <2>1, <1>1
  <2>3. g[n + 1] = IF s[n + 1] \in photos THEN g[n] ELSE Append(g[n], s[n + 1])
    BY <1>1, <1>2, <2>1, KeptNext
  <2>4. First(n + 1) = First(n) \cup {s[n + 1]}
    BY <2>1
  <2>5. s[n + 1] \notin First(n) /\ s[n + 1] \in Photo
    BY <2>1, <1>1, SelectionFacts
  <2> HIDE DEF First
  <2>6. CASE s[n + 1] \in photos
    BY <2>6, <2>2, <2>3, <2>4
  <2>7. CASE s[n + 1] \notin photos
    BY <2>7, <2>2, <2>3, <2>4, <2>5, AppendSelection
  <2> QED BY <2>6, <2>7
<1> HIDE DEF T
<1>5. Len(s) \in T
  BY <1>1, <1>3, <1>4, InductionOnSet
<1> QED BY <1>1, <1>2, <1>5, SelectionFacts DEF T

-----------------------------------------------------------------------------
(* The rest of a list, and what comes before it *)

Suffix(rest, all) ==
    /\ Len(rest) <= Len(all)
    /\ \A i \in 1 .. Len(rest) : rest[i] = all[Len(all) - Len(rest) + i]

Before(rest, all) == {all[i] : i \in 1 .. Len(all) - Len(rest)}

LEMMA SuffixWhole ==
    ASSUME NEW all \in Selections
    PROVE  Suffix(all, all) /\ Before(all, all) = {}
BY SelectionFacts DEF Suffix, Before

LEMMA SuffixTail ==
    ASSUME NEW all \in Selections, NEW s \in Selections, s # <<>>, Suffix(s, all)
    PROVE  /\ Head(s) \notin Before(s, all)
           /\ Suffix(Tail(s), all)
           /\ Before(Tail(s), all) = Before(s, all) \cup {Head(s)}
<1> DEFINE k == Len(all) - Len(s)
<1>1. /\ Len(s) \in Nat /\ Len(all) \in Nat /\ Len(s) >= 1 /\ Len(s) <= Len(all)
      /\ k \in Nat /\ k + 1 \in 1 .. Len(all)
      /\ Len(Tail(s)) = Len(s) - 1
      /\ Len(all) - Len(Tail(s)) = k + 1
      /\ 1 \in 1 .. Len(s)
  BY SelectionFacts, TailSelection DEF Suffix
<1>2. Head(s) = all[k + 1]
  BY <1>1, TailSelection DEF Suffix
<1>3. Head(s) \notin Before(s, all)
  <2>1. ASSUME NEW i \in 1 .. k PROVE all[i] # all[k + 1]
    BY <1>1, SelectionFacts
  <2> QED BY <2>1, <1>2 DEF Before
<1>4. Suffix(Tail(s), all)
  <2>1. ASSUME NEW i \in 1 .. Len(Tail(s))
        PROVE  Tail(s)[i] = all[k + 1 + i]
    <3>1. i \in 1 .. Len(s) - 1 /\ i + 1 \in 1 .. Len(s)
      BY <1>1
    <3>2. Tail(s)[i] = s[i + 1] /\ s[i + 1] = all[k + (i + 1)]
      BY <3>1, TailSelection DEF Suffix
    <3>3. k + (i + 1) = k + 1 + i
      BY <1>1, <3>1
    <3> QED BY <3>2, <3>3
  <2> QED BY <2>1, <1>1 DEF Suffix
<1>5. Before(Tail(s), all) = Before(s, all) \cup {Head(s)}
  <2>1. 1 .. k + 1 = (1 .. k) \cup {k + 1}
    BY <1>1
  <2>2. Before(Tail(s), all) = {all[i] : i \in 1 .. k + 1}
    BY <1>1 DEF Before
  <2>3. Before(s, all) = {all[i] : i \in 1 .. k}
    BY DEF Before
  <2> HIDE DEF k
  <2> QED BY <2>1, <2>2, <2>3, <1>2
<1> QED BY <1>3, <1>4, <1>5

-----------------------------------------------------------------------------
(* The inductive invariant *)

Looping == {"reading", "posted", "accepted", "refused"}

(* A call of runBackground has prepared the first photos of its selection, *)
(* and accepted those before the rest that are not too large.              *)
LocalOK(r) ==
    /\ r.pc \in {"count", "create"} <=> r.batch = None
    /\ r.pc # "count" =>
          /\ r.links \in Links
          /\ Len(r.prepared) <= Len(r.files)
          /\ \A i \in 1 .. Len(r.prepared) : r.prepared[i] = r.files[i]
    /\ r.pc \in Looping =>
          /\ r.rest # <<>>
          /\ Suffix(r.rest, r.prepared)
          /\ r.accepted = Before(r.rest, r.prepared) \ Large
    /\ r.pc \notin Looping => r.accepted = {}
    /\ r.pc \in Looping \ {"reading"} => Head(r.rest) \notin Large

(* The photos for which the call has made the server keep a job.           *)
Own(r) == r.accepted \cup (IF r.pc = "accepted" THEN {Head(r.rest)} ELSE {})

Active(c) == clicks[c] # None

ClicksOK == \A c \in Click : Active(c) => LocalOK(clicks[c])

(* A batch belongs to one call, and its jobs are those the call made.      *)
BatchesApart ==
    \A c \in Click : Active(c) /\ clicks[c].batch # None =>
        /\ clicks[c].batch \in batches
        /\ \A d \in Click : Active(d) /\ clicks[d].batch = clicks[c].batch => c = d

JobsOwned ==
    \A c \in Click : Active(c) /\ clicks[c].batch # None =>
        \A p \in Photo :
            /\ jobs[<<clicks[c].batch, p>>] # "none" <=> p \in Own(clicks[c])
            /\ p \in Own(clicks[c]) => keys[KeyOf(clicks[c], p)] = clicks[c].batch

(* A job has a batch that was created.                                     *)
JobsPlaced ==
    /\ \A b \in Batch, p \in Photo : jobs[<<b, p>>] # "none" => b \in batches
    /\ \A k \in Key : keys[k] # None => keys[k] \in batches

(* The photo under way is kept until there is an answer.                   *)
HeadKept ==
    \A c \in Click : Active(c) /\ clicks[c].pc \in Looping \ {"accepted"} =>
        <<clicks[c].batch, Head(clicks[c].rest)>> \in pending

(* A report of success has its jobs; one of failure is about a batch that  *)
(* no call submits to any more.                                            *)
MessageOK ==
    /\ message.text = "queued" =>
          /\ message.batch \in Batch
          /\ \E p \in Photo : jobs[<<message.batch, p>>] # "none"
    /\ message.text = "try again" =>
          /\ message.batch \in batches
          /\ \A p \in Photo : jobs[<<message.batch, p>>] = "none"
          /\ \A c \in Click : Active(c) => clicks[c].batch # message.batch

LocalInv ==
    TypeOK /\ IsFiniteSet(Open) /\ ClicksOK /\ BatchesApart /\ JobsOwned /\ JobsPlaced

QueueInv == LocalInv /\ HeadKept /\ RetryAvailable /\ MessageOK

(* While the user leaves the page alone: a call has the fields of the      *)
(* form, and if its selection is out of date then another batch has the    *)
(* key of its first photo of acceptable size.                              *)
Overtaken(r, f, ks) ==
    \E i \in 1 .. Len(r.files) :
        /\ r.files[i] \notin Large
        /\ \A j \in 1 .. i - 1 : r.files[j] \in Large
        /\ ks[KeyOf(f, r.files[i])] \in Batch \ {r.batch}

UpToDate ==
    wanted # None => \A c \in Click : Active(c) =>
        /\ clicks[c].profile = form.profile
        /\ clicks[c].pc # "count" => clicks[c].links = form.links
        /\ clicks[c].files = selection \/ Overtaken(clicks[c], form, keys)

SelectionInv == SelectionKept /\ UpToDate

-----------------------------------------------------------------------------
(* What a step does to the calls and the jobs *)

NoJob(i) == jobs[i] = "none"

(* All that most steps do to a call: it moves on and keeps its batch and   *)
(* its jobs, or it ends.                                                   *)
Moves(c) ==
    /\ \A d \in Click \ {c} : clicks'[d] = clicks[d]
    /\ clicks'[c] = None \/
          /\ LocalOK(clicks'[c])
          /\ \/ clicks'[c].batch = None
             \/ /\ Active(c)
                /\ clicks'[c].batch = clicks[c].batch
                /\ clicks'[c].profile = clicks[c].profile
                /\ clicks'[c].links = clicks[c].links
                /\ Own(clicks'[c]) = Own(clicks[c])
    /\ batches' = batches /\ keys' = keys
    /\ \A i \in Item : NoJob(i)' <=> NoJob(i)

LEMMA NoneApart == None \notin Batch /\ None \notin Run
BY WebQueueAssumption

LEMMA ActiveRun ==
    ASSUME TypeOK, ClicksOK, NEW c \in Click, Active(c)
    PROVE  /\ clicks[c] \in Run
           /\ LocalOK(clicks[c])
           /\ clicks[c].files \in Selections
           /\ clicks[c].prepared \in Selections
           /\ clicks[c].rest \in Selections
           /\ clicks[c].accepted \subseteq Photo
           /\ clicks[c].batch \in Batch \cup {None}
           /\ clicks[c].batch \in Batch <=> clicks[c].pc \notin {"count", "create"}
           /\ clicks[c].profile \in Profile
           /\ clicks[c].pc # "count" => clicks[c].links \in Links
BY NoneApart DEF TypeOK, ClicksOK, Active, Run, LocalOK

LEMMA KeyType ==
    ASSUME NEW f, f.profile \in Profile, f.links \in Links, NEW p \in Photo
    PROVE  KeyOf(f, p) \in Key
<1>1. f.links \in [Photo -> Link]
  BY WebQueueAssumption
<1> QED BY <1>1 DEF KeyOf, Key

LEMMA MovesLocal ==
    ASSUME ClicksOK, BatchesApart, JobsOwned, JobsPlaced, TypeOK,
           NEW c \in Click, Moves(c)
    PROVE  ClicksOK' /\ BatchesApart' /\ JobsOwned' /\ JobsPlaced'
<1>1. \A b \in Batch, p \in Photo : jobs'[<<b, p>>] = "none" <=> jobs[<<b, p>>] = "none"
  BY DEF Moves, NoJob, Item
<1>2. ClicksOK'
  BY DEF ClicksOK, Active, Moves
<1>3. \A d \in Click : Active(d)' /\ clicks'[d].batch # None =>
          /\ Active(d)
          /\ clicks'[d].batch = clicks[d].batch
          /\ Own(clicks'[d]) = Own(clicks[d])
          /\ clicks[d].batch \in Batch
          /\ \A p : KeyOf(clicks'[d], p) = KeyOf(clicks[d], p)
  BY ActiveRun DEF Moves, Active, KeyOf
<1>4. BatchesApart'
  <2>1. SUFFICES ASSUME NEW d \in Click, Active(d)', clicks'[d].batch # None
                 PROVE  /\ clicks'[d].batch \in batches'
                        /\ \A e \in Click : Active(e)' /\ clicks'[e].batch = clicks'[d].batch
                                               => d = e
    BY DEF BatchesApart
  <2>2. Active(d) /\ clicks'[d].batch = clicks[d].batch /\ clicks[d].batch # None
    BY <2>1, <1>3
  <2>3. clicks'[d].batch \in batches'
    BY <2>2 DEF BatchesApart, Moves
  <2>4. ASSUME NEW e \in Click, Active(e)', clicks'[e].batch = clicks'[d].batch
        PROVE  d = e
    BY <2>1, <2>2, <2>4, <1>3 DEF BatchesApart
  <2> QED BY <2>3, <2>4
<1>5. JobsOwned'
  BY <1>1, <1>3 DEF JobsOwned, Moves
<1>6. JobsPlaced'
  BY <1>1 DEF JobsPlaced, Moves
<1> QED BY <1>2, <1>4, <1>5, <1>6

(* A call and its batch.                                                   *)
LEMMA InBatch ==
    ASSUME TypeOK, ClicksOK, BatchesApart, JobsOwned, NEW c \in Click, Active(c),
           clicks[c].pc \notin {"count", "create"}
    PROVE  /\ clicks[c].batch \in Batch /\ clicks[c].batch \in batches
           /\ clicks[c].batch # None
           /\ \A d \in Click : Active(d) /\ clicks[d].batch = clicks[c].batch => c = d
           /\ \A p \in Photo : jobs[<<clicks[c].batch, p>>] # "none" <=> p \in Own(clicks[c])
           /\ \A p \in Own(clicks[c]) \cap Photo :
                  keys[KeyOf(clicks[c], p)] = clicks[c].batch
BY ActiveRun, NoneApart DEF BatchesApart, JobsOwned

(* A call in its loop is at a photo it has not done before.                *)
LEMMA AtPhoto ==
    ASSUME TypeOK, ClicksOK, NEW c \in Click, Active(c), clicks[c].pc \in Looping
    PROVE  LET r == clicks[c] IN
           /\ r.rest # <<>>
           /\ Head(r.rest) \in Photo
           /\ Head(r.rest) \notin r.accepted
           /\ Tail(r.rest) \in Selections
           /\ Suffix(Tail(r.rest), r.prepared)
           /\ r.accepted = Before(r.rest, r.prepared) \ Large
           /\ Before(Tail(r.rest), r.prepared)
                 = Before(r.rest, r.prepared) \cup {Head(r.rest)}
           /\ r.pc # "reading" => Head(r.rest) \notin Large
<1> DEFINE r == clicks[c]
<1>1. r \in Run /\ LocalOK(r) /\ r.prepared \in Selections /\ r.rest \in Selections
  BY ActiveRun
<1>2. /\ r.rest # <<>> /\ Suffix(r.rest, r.prepared)
      /\ r.accepted = Before(r.rest, r.prepared) \ Large
      /\ r.pc # "reading" => Head(r.rest) \notin Large
  BY <1>1 DEF LocalOK
<1> HIDE DEF r
<1>3. Head(r.rest) \in Photo /\ Tail(r.rest) \in Selections
  BY <1>1, <1>2, TailSelection
<1>4. /\ Head(r.rest) \notin Before(r.rest, r.prepared)
      /\ Suffix(Tail(r.rest), r.prepared)
      /\ Before(Tail(r.rest), r.prepared) = Before(r.rest, r.prepared) \cup {Head(r.rest)}
  BY <1>1, <1>2, SuffixTail
<1> QED BY <1>2, <1>3, <1>4 DEF r

-----------------------------------------------------------------------------
(* The three ways on from a photo *)

GoesOn(c, rest, accepted, kept) ==
    /\ rest # <<>>
    /\ clicks'[c] = [clicks[c] EXCEPT !.pc = "reading", !.rest = rest, !.accepted = accepted]
    /\ pending' = kept \cup {<<clicks[c].batch, Head(rest)>>}
    /\ UNCHANGED <<selection, message, wanted>>

EndsQueued(c, accepted, kept) ==
    /\ accepted # {}
    /\ clicks'[c] = None
    /\ message' = [text |-> "queued", batch |-> clicks[c].batch]
    /\ selection' = Without(clicks[c].files, accepted)
    /\ wanted' = IF wanted = None THEN None ELSE Without(wanted, accepted)
    /\ pending' = kept

EndsEmpty(c, accepted, kept) ==
    /\ accepted = {}
    /\ clicks'[c] = None
    /\ message' = [text |-> "try again", batch |-> clicks[c].batch]
    /\ pending' = {i \in kept : i[1] # clicks[c].batch}
    /\ UNCHANGED <<selection, wanted>>

Others(c) == \A d \in Click \ {c} : clicks'[d] = clicks[d]

LEMMA EndsCall ==
    ASSUME TypeOK, NEW c \in Click, NEW text, NEW b, End(c, text, b)
    PROVE  /\ clicks'[c] = None /\ Others(c)
           /\ clicks' \in [Click -> Run \cup {None}]
           /\ message' = [text |-> text, batch |-> b]
BY DEF TypeOK, End, Others

LEMMA ContinueCases ==
    ASSUME TypeOK, NEW c \in Click, Active(c), clicks[c].batch \in Batch,
           NEW rest \in Selections, NEW accepted \in SUBSET Photo,
           NEW kept \in SUBSET Item, NEW stopped \in BOOLEAN,
           Continue(c, rest, accepted, kept, stopped)
    PROVE  /\ Others(c)
           /\ clicks' \in [Click -> Run \cup {None}]
           /\ selection' \in Selections /\ wanted' \in Selections \cup {None}
           /\ pending' \subseteq Item
           /\ message' \in Message
           /\ form' = form
           /\ \/ ~stopped /\ GoesOn(c, rest, accepted, kept)
              \/ EndsQueued(c, accepted, kept)
              \/ EndsEmpty(c, accepted, kept)
<1>0. clicks[c] \in Run /\ selection \in Selections
      /\ wanted \in Selections \cup {None}
      /\ message \in Message /\ clicks \in [Click -> Run \cup {None}]
  BY NoneApart DEF TypeOK, Active
<1>4. form' = form
  BY DEF Continue
<1>1. CASE rest # <<>> /\ ~stopped
  <2>1. /\ clicks' = [clicks EXCEPT ![c].pc = "reading", ![c].rest = rest,
                                    ![c].accepted = accepted]
        /\ pending' = kept \cup {<<clicks[c].batch, Head(rest)>>}
        /\ UNCHANGED <<selection, message, wanted>>
    BY <1>1 DEF Continue
  <2>2. clicks'[c] = [clicks[c] EXCEPT !.pc = "reading", !.rest = rest,
                                       !.accepted = accepted]
    BY <2>1, <1>0
  <2>3. clicks'[c] \in Run
    BY <2>2, <1>0 DEF Run
  <2>4. Others(c) /\ clicks' \in [Click -> Run \cup {None}]
    BY <2>1, <2>3, <1>0 DEF Others
  <2>5. <<clicks[c].batch, Head(rest)>> \in Item
    BY <1>1, TailSelection DEF Item
  <2> QED BY <2>1, <2>2, <2>4, <2>5, <1>0, <1>1, <1>4 DEF GoesOn
<1>2. CASE ~(rest # <<>> /\ ~stopped) /\ accepted # {}
  <2>1. /\ End(c, "queued", clicks[c].batch)
        /\ selection' = Without(clicks[c].files, accepted)
        /\ wanted' = IF wanted = None THEN None ELSE Without(wanted, accepted)
        /\ pending' = kept
    BY <1>2 DEF Continue
  <2>2. clicks[c].files \in Selections
    BY <1>0 DEF Run
  <2>3. selection' \in Selections /\ wanted' \in Selections \cup {None}
    BY <2>1, <2>2, <1>0, WithoutSelection
  <2>4. message' = [text |-> "queued", batch |-> clicks[c].batch]
        /\ clicks'[c] = None /\ Others(c) /\ clicks' \in [Click -> Run \cup {None}]
    BY <2>1, EndsCall
  <2>5. message' \in Message
    BY <2>4 DEF Message
  <2> QED BY <2>1, <2>3, <2>4, <2>5, <1>2, <1>4 DEF EndsQueued
<1>3. CASE ~(rest # <<>> /\ ~stopped) /\ accepted = {}
  <2>1. /\ End(c, "try again", clicks[c].batch)
        /\ pending' = {i \in kept : i[1] # clicks[c].batch}
        /\ UNCHANGED <<selection, wanted>>
    BY <1>3 DEF Continue
  <2>2. message' = [text |-> "try again", batch |-> clicks[c].batch]
        /\ clicks'[c] = None /\ Others(c) /\ clicks' \in [Click -> Run \cup {None}]
    BY <2>1, EndsCall
  <2>3. message' \in Message
    BY <2>2 DEF Message
  <2> QED BY <2>1, <2>2, <2>3, <1>0, <1>3, <1>4 DEF EndsEmpty
<1> QED BY <1>1, <1>2, <1>3

-----------------------------------------------------------------------------
(* Each step of a call moves it *)

LEMMA EndMoves ==
    ASSUME TypeOK, NEW c \in Click, clicks'[c] = None, Others(c), UNCHANGED server
    PROVE  Moves(c)
BY DEF Moves, Others, server, NoJob

LEMMA PressMoves ==
    ASSUME LocalInv, NEW c \in Click, Press(c)
    PROVE  TypeOK' /\ Moves(c)
<1> DEFINE r == [pc |-> "count", files |-> selection, profile |-> form.profile,
                 links |-> None, prepared |-> <<>>, batch |-> None, rest |-> <<>>,
                 accepted |-> {}]
<1>1. TypeOK
  BY DEF LocalInv
<1>2. r \in Run
  BY <1>1, EmptySelection DEF TypeOK, Run, Form
<1>3. LocalOK(r)
  BY DEF LocalOK, Looping
<1>4. clicks' = [clicks EXCEPT ![c] = r]
      /\ UNCHANGED <<input, queuedBatchIds, pending, message, server>>
      /\ wanted' \in {selection, wanted}
  BY DEF Press
<1> HIDE DEF r
<1>5. clicks'[c] = r /\ clicks' \in [Click -> Run \cup {None}]
      /\ \A d \in Click \ {c} : clicks'[d] = clicks[d]
  BY <1>1, <1>2, <1>4 DEF TypeOK
<1>6. r.batch = None
  BY DEF r
<1> QED BY <1>1, <1>3, <1>4, <1>5, <1>6 DEF Moves, TypeOK, input, server, NoJob

(* What the call has prepared, when there is room for n photos.            *)
Prepared(c, n) ==
    [clicks[c] EXCEPT !.pc = "create", !.links = form.links,
                      !.prepared = SubSeq(clicks[c].files, 1, n)]

LEMMA CountCases ==
    ASSUME LocalInv, NEW c \in Click, Count(c)
    PROVE  /\ Active(c) /\ clicks[c].pc = "count" /\ UNCHANGED server
           /\ \/ /\ \E text \in {"full", "already"}, b \in Batch \cup {None} :
                        End(c, text, b)
                 /\ UNCHANGED <<input, queuedBatchIds, pending, wanted>>
              \/ /\ \E n \in 0 .. Len(clicks[c].files) :
                        clicks' = [clicks EXCEPT ![c] = Prepared(c, n)]
                 /\ UNCHANGED page
<1>1. TypeOK /\ IsFiniteSet(Open) /\ clicks[c] \in Run /\ clicks[c].files \in Selections
  BY ActiveRun DEF LocalInv, Count, At, Active
<1>2. Active(c) /\ clicks[c].pc = "count" /\ UNCHANGED server
  BY DEF Count, At, Active
<1> DEFINE files == clicks[c].files
           n(open) == IF MaxOpen - open < Len(files) THEN MaxOpen - open ELSE Len(files)
           r(open) == [clicks[c] EXCEPT !.pc = "create", !.links = form.links,
                                        !.prepared = SubSeq(files, 1, n(open))]
           key(open) == KeysOf(r(open), SubSeq(files, 1, n(open)))
<1>3. PICK open \in {0, Cardinality(Open)} :
         IF open >= MaxOpen
         THEN /\ End(c, "full", None)
              /\ UNCHANGED <<input, queuedBatchIds, pending, wanted>>
         ELSE IF key(open) \in DOMAIN queuedBatchIds
              THEN /\ End(c, "already", queuedBatchIds[key(open)])
                   /\ UNCHANGED <<input, queuedBatchIds, pending, wanted>>
              ELSE /\ clicks' = [clicks EXCEPT ![c] = r(open)]
                   /\ UNCHANGED page
  BY DEF Count
<1>4. open \in Nat /\ MaxOpen \in Nat
  BY <1>1, FS_CardinalityType, WebQueueAssumption
<1>5. CASE open >= MaxOpen
  BY <1>2, <1>3, <1>5
<1>6. CASE ~(open >= MaxOpen)
  <2>1. n(open) \in 0 .. Len(files)
    BY <1>1, <1>4, <1>6, SelectionFacts
  <2>2. r(open) = Prepared(c, n(open))
    BY DEF Prepared
  <2>3. key(open) \in DOMAIN queuedBatchIds => queuedBatchIds[key(open)] \in Batch
    BY <1>1 DEF TypeOK
  <2> HIDE DEF key, r, n, files
  <2> QED BY <1>2, <1>3, <1>6, <2>1, <2>2, <2>3 DEF files
<1> QED BY <1>5, <1>6

LEMMA PreparedOK ==
    ASSUME TypeOK, ClicksOK, NEW c \in Click, Active(c), clicks[c].pc = "count",
           NEW n \in 0 .. Len(clicks[c].files)
    PROVE  LET r == Prepared(c, n) IN
           /\ r \in Run /\ LocalOK(r) /\ r.batch = None
           /\ r.pc = "create" /\ r.files = clicks[c].files
           /\ r.profile = clicks[c].profile /\ r.links = form.links
<1> DEFINE old == clicks[c]
           some == SubSeq(old.files, 1, n)
           r == Prepared(c, n)
<1>1. old \in Run /\ LocalOK(old) /\ old.files \in Selections /\ old.batch = None
  BY ActiveRun DEF LocalOK
<1>2. some \in Selections /\ Len(some) = n /\ \A i \in 1 .. n : some[i] = old.files[i]
  BY <1>1, PrefixSelection
<1>3. Len(some) <= Len(old.files) /\ \A i \in 1 .. Len(some) : some[i] = old.files[i]
  BY <1>1, <1>2, SelectionFacts
<1>4. form.links \in Links
  BY DEF TypeOK, Form
<1>5. r = [old EXCEPT !.pc = "create", !.links = form.links, !.prepared = some]
  BY DEF Prepared
<1> HIDE DEF some, r
<1>6. /\ r \in Run
      /\ r.pc = "create" /\ r.batch = None /\ r.files = old.files
      /\ r.prepared = some /\ r.links = form.links
      /\ r.profile = old.profile /\ r.accepted = old.accepted
  BY <1>1, <1>2, <1>4, <1>5 DEF Run
<1>7. LocalOK(r)
  BY <1>1, <1>3, <1>4, <1>6 DEF LocalOK, Looping
<1> QED BY <1>6, <1>7 DEF r

LEMMA CountMoves ==
    ASSUME LocalInv, NEW c \in Click, Count(c)
    PROVE  TypeOK' /\ Moves(c)
<1>1. TypeOK /\ ClicksOK
  BY DEF LocalInv
<1>2. Active(c) /\ clicks[c].pc = "count" /\ UNCHANGED server
  BY CountCases
<1>3. CASE /\ \E text \in {"full", "already"}, b \in Batch \cup {None} : End(c, text, b)
           /\ UNCHANGED <<input, queuedBatchIds, pending, wanted>>
  <2>1. PICK text \in {"full", "already"}, b \in Batch \cup {None} : End(c, text, b)
    BY <1>3
  <2>2. clicks'[c] = None /\ Others(c) /\ clicks' \in [Click -> Run \cup {None}]
        /\ message' = [text |-> text, batch |-> b]
    BY <1>1, <2>1, EndsCall
  <2>3. message' \in Message
    BY <2>2 DEF Message
  <2> QED BY <1>1, <1>2, <1>3, <2>2, <2>3, EndMoves DEF TypeOK, input, server
<1>4. CASE /\ \E n \in 0 .. Len(clicks[c].files) :
                  clicks' = [clicks EXCEPT ![c] = Prepared(c, n)]
           /\ UNCHANGED page
  <2>1. PICK n \in 0 .. Len(clicks[c].files) :
                clicks' = [clicks EXCEPT ![c] = Prepared(c, n)]
    BY <1>4
  <2>2. Prepared(c, n) \in Run /\ LocalOK(Prepared(c, n)) /\ Prepared(c, n).batch = None
    BY <1>1, <1>2, PreparedOK
  <2>3. clicks'[c] = Prepared(c, n) /\ Others(c) /\ clicks' \in [Click -> Run \cup {None}]
    BY <1>1, <2>1, <2>2 DEF TypeOK, Others
  <2> QED
    BY <1>1, <1>2, <1>4, <2>2, <2>3 DEF Moves, Others, TypeOK, page, input, server, NoJob
<1> QED BY <1>3, <1>4, CountCases

(* The way on from a photo, or from a new batch, that changes no job: what *)
(* the call has accepted are the photos before the rest that are not too   *)
(* large, and these are the jobs it has.                                   *)
LEMMA ContinueMoves ==
    ASSUME LocalInv, NEW c \in Click, Active(c), clicks[c].batch \in Batch,
           NEW rest \in Selections, NEW accepted \in SUBSET Photo,
           NEW kept \in SUBSET Item, NEW stopped \in BOOLEAN,
           Continue(c, rest, accepted, kept, stopped),
           accepted = Own(clicks[c]),
           ~stopped => /\ Suffix(rest, clicks[c].prepared)
                       /\ accepted = Before(rest, clicks[c].prepared) \ Large,
           queuedBatchIds' = queuedBatchIds \/
               (/\ DOMAIN queuedBatchIds' \subseteq Seq(Key)
                /\ \A s \in DOMAIN queuedBatchIds' : queuedBatchIds'[s] \in Batch),
           UNCHANGED server
    PROVE  TypeOK' /\ Moves(c)
<1>1. TypeOK /\ ClicksOK
  BY DEF LocalInv
<1>2. /\ Others(c)
      /\ clicks' \in [Click -> Run \cup {None}]
      /\ selection' \in Selections /\ wanted' \in Selections \cup {None}
      /\ pending' \subseteq Item
      /\ message' \in Message
      /\ form' = form
      /\ \/ ~stopped /\ GoesOn(c, rest, accepted, kept)
         \/ EndsQueued(c, accepted, kept)
         \/ EndsEmpty(c, accepted, kept)
  BY <1>1, ContinueCases
<1>3. TypeOK'
  BY <1>1, <1>2 DEF TypeOK, server
<1>4. CASE EndsQueued(c, accepted, kept) \/ EndsEmpty(c, accepted, kept)
  BY <1>1, <1>2, <1>3, <1>4, EndMoves DEF EndsQueued, EndsEmpty
<1>5. CASE ~stopped /\ GoesOn(c, rest, accepted, kept)
  <2>1. clicks[c] \in Run /\ LocalOK(clicks[c])
    BY <1>1, ActiveRun
  <2>2. /\ clicks'[c].pc = "reading" /\ clicks'[c].rest = rest
        /\ clicks'[c].accepted = accepted /\ clicks'[c].batch = clicks[c].batch
        /\ clicks'[c].prepared = clicks[c].prepared /\ clicks'[c].files = clicks[c].files
        /\ clicks'[c].profile = clicks[c].profile /\ clicks'[c].links = clicks[c].links
    BY <1>5, <2>1 DEF GoesOn, Run
  <2>3. clicks[c].pc \notin {"count", "create"} /\ clicks[c].batch # None
    BY <1>1, ActiveRun, NoneApart
  <2>4. LocalOK(clicks'[c])
    BY <1>5, <2>1, <2>2, <2>3 DEF LocalOK, Looping, GoesOn
  <2>5. Own(clicks'[c]) = Own(clicks[c])
    BY <2>2 DEF Own
  <2> QED BY <1>2, <1>3, <2>2, <2>4, <2>5 DEF Moves, Others, server, NoJob
<1> QED BY <1>2, <1>3, <1>4, <1>5

LEMMA CreatedMoves ==
    ASSUME LocalInv, NEW c \in Click, Created(c)
    PROVE  TypeOK' /\ Moves(c)
<1> DEFINE r == clicks[c]
<1>1. TypeOK /\ ClicksOK /\ Active(c) /\ r.pc = "created" /\ UNCHANGED server
  BY DEF LocalInv, Created, At, Active
<1>2. r \in Run /\ LocalOK(r) /\ r.prepared \in Selections /\ r.batch \in Batch
  BY <1>1, ActiveRun
<1>3. r.accepted = {} /\ Own(r) = {}
  BY <1>1, <1>2 DEF LocalOK, Looping, Own
<1> DEFINE key == KeysOf(r, r.prepared)
<1>4. /\ queuedBatchIds' = [s \in DOMAIN queuedBatchIds \cup {key} |->
                                 IF s = key THEN r.batch ELSE queuedBatchIds[s]]
      /\ Continue(c, r.prepared, {}, pending, FALSE)
  BY DEF Created
<1>8. key \in Seq(Key)
  <2>1. r.profile \in Profile /\ r.links \in Links
    BY <1>1, ActiveRun
  <2>2. /\ DOMAIN r.prepared = 1 .. Len(r.prepared) /\ Len(r.prepared) \in Nat
        /\ \A i \in 1 .. Len(r.prepared) : r.prepared[i] \in Photo
    BY <1>2, SelectionFacts
  <2> HIDE DEF r
  <2>3. \A i \in 1 .. Len(r.prepared) : KeyOf(r, r.prepared[i]) \in Key
    BY <2>1, <2>2, KeyType
  <2>4. key \in [1 .. Len(r.prepared) -> Key]
    BY <2>2, <2>3 DEF KeysOf
  <2> QED BY <2>2, <2>4
<1>5. /\ DOMAIN queuedBatchIds' \subseteq Seq(Key)
      /\ \A s \in DOMAIN queuedBatchIds' : queuedBatchIds'[s] \in Batch
  <2> HIDE DEF key, r
  <2> QED BY <1>1, <1>2, <1>4, <1>8 DEF TypeOK
<1>6. Suffix(r.prepared, r.prepared) /\ Before(r.prepared, r.prepared) = {}
  BY <1>2, SuffixWhole
<1>7. pending \in SUBSET Item
  BY <1>1 DEF TypeOK
<1> QED
  BY <1>1, <1>2, <1>3, <1>4, <1>5, <1>6, <1>7, ContinueMoves

LEMMA ReadMoves ==
    ASSUME LocalInv, NEW c \in Click, Read(c)
    PROVE  TypeOK' /\ Moves(c)
<1> DEFINE r == clicks[c]
<1>1. TypeOK /\ ClicksOK /\ Active(c) /\ r.pc = "reading"
      /\ UNCHANGED <<queuedBatchIds, server>>
  BY DEF LocalInv, Read, At, Active
<1>2. r \in Run /\ LocalOK(r) /\ r.batch \in Batch /\ r.accepted \in SUBSET Photo
  BY <1>1, ActiveRun
<1>3. Own(r) = r.accepted
  BY <1>1 DEF Own
<1>4. /\ Head(r.rest) \in Photo /\ Tail(r.rest) \in Selections
      /\ Suffix(Tail(r.rest), r.prepared)
      /\ r.accepted = Before(r.rest, r.prepared) \ Large
      /\ Before(Tail(r.rest), r.prepared) = Before(r.rest, r.prepared) \cup {Head(r.rest)}
  BY <1>1, AtPhoto DEF Looping
<1>5. CASE Head(r.rest) \in Large
  <2>1. Continue(c, Tail(r.rest), r.accepted, pending \ {<<r.batch, Head(r.rest)>>}, FALSE)
    BY <1>5 DEF Read
  <2>2. r.accepted = Before(Tail(r.rest), r.prepared) \ Large
    BY <1>4, <1>5
  <2>3. pending \ {<<r.batch, Head(r.rest)>>} \in SUBSET Item
    BY <1>1 DEF TypeOK
  <2> QED
    BY <1>1, <1>2, <1>3, <1>4, <2>1, <2>2, <2>3, ContinueMoves
<1>6. CASE Head(r.rest) \notin Large
  <2>1. Goto(c, "posted") /\ UNCHANGED <<input, pending, message, wanted>>
    BY <1>6 DEF Read
  <2>2. clicks' = [clicks EXCEPT ![c].pc = "posted"]
    BY <2>1 DEF Goto
  <2>3. clicks'[c] = [r EXCEPT !.pc = "posted"]
    BY <1>1, <2>2 DEF TypeOK
  <2>4. clicks'[c] \in Run
    BY <1>2, <2>3 DEF Run
  <2>5. LocalOK(clicks'[c]) /\ Own(clicks'[c]) = Own(r) /\ clicks'[c].batch = r.batch
        /\ clicks'[c].profile = r.profile /\ clicks'[c].links = r.links
    BY <1>1, <1>2, <1>6, <2>3 DEF LocalOK, Looping, Own, Run
  <2>6. Others(c) /\ clicks' \in [Click -> Run \cup {None}]
    BY <1>1, <2>2, <2>4 DEF Others, TypeOK
  <2> QED BY <1>1, <2>1, <2>5, <2>6 DEF Moves, Others, TypeOK, input, server, NoJob
<1> QED BY <1>5, <1>6

LEMMA RefuseMoves ==
    ASSUME LocalInv, NEW c \in Click, Refuse(c)
    PROVE  TypeOK' /\ Moves(c)
<1> DEFINE r == clicks[c]
<1>1. TypeOK /\ ClicksOK /\ Active(c) /\ r.pc = "posted" /\ UNCHANGED <<page, server>>
      /\ clicks' = [clicks EXCEPT ![c].pc = "refused"]
  BY DEF LocalInv, Refuse, At, Active, Goto
<1>2. r \in Run /\ LocalOK(r)
  BY <1>1, ActiveRun
<1>3. clicks'[c] = [r EXCEPT !.pc = "refused"]
  BY <1>1 DEF TypeOK
<1>4. clicks'[c] \in Run
  BY <1>2, <1>3 DEF Run
<1>5. LocalOK(clicks'[c]) /\ Own(clicks'[c]) = Own(r) /\ clicks'[c].batch = r.batch
      /\ clicks'[c].profile = r.profile /\ clicks'[c].links = r.links
  BY <1>1, <1>2, <1>3 DEF LocalOK, Looping, Own, Run
<1>6. Others(c) /\ clicks' \in [Click -> Run \cup {None}]
  BY <1>1, <1>4 DEF Others, TypeOK
<1> QED BY <1>1, <1>5, <1>6 DEF Moves, Others, TypeOK, page, input, server, NoJob

LEMMA AcceptedMoves ==
    ASSUME LocalInv, NEW c \in Click, Accepted(c)
    PROVE  TypeOK' /\ Moves(c)
<1> DEFINE r == clicks[c]
<1>1. TypeOK /\ ClicksOK /\ Active(c) /\ r.pc = "accepted"
      /\ UNCHANGED <<queuedBatchIds, server>>
  BY DEF LocalInv, Accepted, At, Active
<1>2. r \in Run /\ LocalOK(r) /\ r.batch \in Batch /\ r.accepted \in SUBSET Photo
  BY <1>1, ActiveRun
<1>3. Own(r) = r.accepted \cup {Head(r.rest)}
  BY <1>1 DEF Own
<1>4. /\ Head(r.rest) \in Photo /\ Tail(r.rest) \in Selections
      /\ Suffix(Tail(r.rest), r.prepared)
      /\ r.accepted = Before(r.rest, r.prepared) \ Large
      /\ Before(Tail(r.rest), r.prepared) = Before(r.rest, r.prepared) \cup {Head(r.rest)}
      /\ Head(r.rest) \notin Large
  BY <1>1, AtPhoto DEF Looping
<1>5. Continue(c, Tail(r.rest), r.accepted \cup {Head(r.rest)}, pending, FALSE)
  BY DEF Accepted
<1>6. r.accepted \cup {Head(r.rest)} = Before(Tail(r.rest), r.prepared) \ Large
  BY <1>4
<1>7. pending \in SUBSET Item /\ r.accepted \cup {Head(r.rest)} \in SUBSET Photo
  BY <1>1, <1>2, <1>4 DEF TypeOK
<1> QED
  BY <1>1, <1>2, <1>3, <1>4, <1>5, <1>6, <1>7, ContinueMoves

LEMMA RefusedMoves ==
    ASSUME LocalInv, NEW c \in Click, Refused(c)
    PROVE  TypeOK' /\ Moves(c)
<1> DEFINE r == clicks[c]
<1>1. TypeOK /\ ClicksOK /\ Active(c) /\ r.pc = "refused"
      /\ UNCHANGED <<queuedBatchIds, server>>
  BY DEF LocalInv, Refused, At, Active
<1>2. r \in Run /\ LocalOK(r) /\ r.batch \in Batch /\ r.accepted \in SUBSET Photo
  BY <1>1, ActiveRun
<1>3. Own(r) = r.accepted
  BY <1>1 DEF Own
<1>4. Tail(r.rest) \in Selections
  BY <1>1, AtPhoto DEF Looping
<1>5. Continue(c, Tail(r.rest), r.accepted, pending \ {<<r.batch, Head(r.rest)>>}, TRUE)
  BY DEF Refused
<1>6. pending \ {<<r.batch, Head(r.rest)>>} \in SUBSET Item
  BY <1>1 DEF TypeOK
<1> QED BY <1>1, <1>2, <1>3, <1>4, <1>5, <1>6, ContinueMoves

LEMMA GivesUpMoves ==
    ASSUME LocalInv, NEW c \in Click, GivesUp(c)
    PROVE  TypeOK' /\ Moves(c)
<1>1. TypeOK /\ ClicksOK /\ Active(c) /\ End(c, "failed", clicks[c].batch)
      /\ UNCHANGED <<input, queuedBatchIds, pending, wanted, server>>
  BY DEF LocalInv, GivesUp, Active
<1>2. clicks'[c] = None /\ Others(c) /\ clicks' \in [Click -> Run \cup {None}]
      /\ message' = [text |-> "failed", batch |-> clicks[c].batch]
  BY <1>1, EndsCall
<1>3. message' \in Message
  BY <1>1, <1>2, ActiveRun DEF Message
<1> QED BY <1>1, <1>2, <1>3, EndMoves DEF TypeOK, input, server

-----------------------------------------------------------------------------
(* The two steps that are more than a move *)

LEMMA CreateBatchLocal ==
    ASSUME LocalInv, NEW c \in Click, CreateBatch(c)
    PROVE  LocalInv'
<1> DEFINE r == clicks[c]
<1>1. TypeOK /\ ClicksOK /\ BatchesApart /\ JobsOwned /\ JobsPlaced /\ IsFiniteSet(Open)
      /\ Active(c) /\ r.pc = "create" /\ UNCHANGED <<page, jobs, keys>>
  BY DEF LocalInv, CreateBatch, At, Active
<1>2. PICK b \in Batch \ batches :
         /\ batches' = batches \cup {b}
         /\ clicks' = [clicks EXCEPT ![c].pc = "created", ![c].batch = b]
  BY DEF CreateBatch
<1>3. r \in Run /\ LocalOK(r) /\ r.batch = None /\ r.accepted = {}
  BY <1>1, ActiveRun DEF LocalOK, Looping
<1>4. clicks'[c] = [r EXCEPT !.pc = "created", !.batch = b]
      /\ \A d \in Click \ {c} : clicks'[d] = clicks[d]
  BY <1>1, <1>2 DEF TypeOK
<1>5. clicks'[c] \in Run /\ clicks'[c] # None /\ clicks'[c].batch = b
      /\ clicks'[c].pc = "created" /\ b # None
  <2>1. b \in Batch \cup {None} /\ r \in Run
        /\ clicks'[c] = [r EXCEPT !.pc = "created", !.batch = b]
    BY <1>2, <1>3, <1>4
  <2> HIDE DEF r
  <2>2. clicks'[c] \in Run
    BY <2>1 DEF Run
  <2>3. clicks'[c].batch = b /\ clicks'[c].pc = "created"
    BY <1>3, <2>1 DEF Run
  <2> QED BY <1>2, <2>2, <2>3, NoneApart
<1>6. TypeOK'
  <2>1. clicks' \in [Click -> Run \cup {None}]
    BY <1>1, <1>2, <1>5 DEF TypeOK
  <2> QED BY <1>1, <1>2, <2>1 DEF TypeOK, page, input
<1>7. LocalOK(clicks'[c]) /\ Own(clicks'[c]) = {}
  BY <1>1, <1>3, <1>4, <1>5 DEF LocalOK, Looping, Own, Run
<1>8. ClicksOK'
  BY <1>1, <1>4, <1>7 DEF ClicksOK, Active
<1>9. BatchesApart'
  <2>1. \A d \in Click \ {c} : Active(d) => clicks[d].batch # b
    BY <1>1, <1>2, <1>5 DEF BatchesApart
  <2>2. \A d \in Click \ {c} : Active(d)' => Active(d) /\ clicks'[d].batch = clicks[d].batch
    BY <1>4 DEF Active
  <2>3. ASSUME NEW d \in Click, Active(d)', clicks'[d].batch # None
        PROVE  /\ clicks'[d].batch \in batches'
               /\ \A e \in Click : Active(e)' /\ clicks'[e].batch = clicks'[d].batch => d = e
    <3>1. CASE d = c
      <4>1. ASSUME NEW e \in Click, Active(e)', clicks'[e].batch = b PROVE c = e
        BY <4>1, <2>1, <2>2
      <4>2. clicks'[d].batch \in batches'
        BY <3>1, <1>2, <1>5
      <4>3. \A e \in Click : Active(e)' /\ clicks'[e].batch = clicks'[d].batch => d = e
        BY <3>1, <4>1, <1>5
      <4> QED BY <4>2, <4>3
    <3>2. CASE d # c
      <4>1. Active(d) /\ clicks'[d].batch = clicks[d].batch /\ clicks[d].batch # None
        BY <2>2, <2>3, <3>2
      <4>2. clicks[d].batch \in batches /\ clicks[d].batch # b
        BY <1>1, <2>1, <3>2, <4>1 DEF BatchesApart
      <4>3. ASSUME NEW e \in Click, Active(e)', clicks'[e].batch = clicks'[d].batch PROVE d = e
        <5>1. e # c
          BY <4>1, <4>2, <4>3, <1>5
        <5> QED BY <1>1, <2>2, <4>1, <4>3, <5>1 DEF BatchesApart
      <4>4. clicks'[d].batch \in batches'
        BY <1>2, <4>1, <4>2
      <4>5. \A e \in Click : Active(e)' /\ clicks'[e].batch = clicks'[d].batch => d = e
        BY <4>3
      <4> QED BY <4>4, <4>5
    <3> QED BY <3>1, <3>2
  <2> QED BY <2>3 DEF BatchesApart
<1>10. JobsOwned'
  <2>1. \A p \in Photo : jobs[<<b, p>>] = "none"
    BY <1>1, <1>2 DEF JobsPlaced
  <2>2. ASSUME NEW d \in Click, Active(d)', clicks'[d].batch # None, NEW p \in Photo
        PROVE  /\ jobs[<<clicks'[d].batch, p>>] # "none" <=> p \in Own(clicks'[d])
               /\ p \in Own(clicks'[d]) => keys[KeyOf(clicks'[d], p)] = clicks'[d].batch
    <3>1. CASE d = c
      BY <3>1, <2>1, <1>5, <1>7
    <3>2. CASE d # c
      BY <2>2, <3>2, <1>1, <1>4 DEF JobsOwned, Active
    <3> QED BY <3>1, <3>2
  <2> QED BY <1>1, <2>2 DEF JobsOwned
<1>11. JobsPlaced' /\ IsFiniteSet(Open)'
  BY <1>1, <1>2 DEF JobsPlaced, Open
<1> QED BY <1>6, <1>8, <1>9, <1>10, <1>11 DEF LocalInv

LEMMA AcceptLocal ==
    ASSUME LocalInv, NEW c \in Click, Accept(c)
    PROVE  LocalInv'
<1> DEFINE r == clicks[c]
           q == Head(r.rest)
           i == <<r.batch, q>>
           k == KeyOf(r, q)
<1>1. TypeOK /\ ClicksOK /\ BatchesApart /\ JobsOwned /\ JobsPlaced /\ IsFiniteSet(Open)
      /\ Active(c) /\ r.pc = "posted" /\ UNCHANGED <<page, batches>>
      /\ clicks' = [clicks EXCEPT ![c].pc = "accepted"]
      /\ jobs' = [jobs EXCEPT ![i] = "queued"]
      /\ keys[k] = None /\ keys' = [keys EXCEPT ![k] = r.batch]
  BY DEF LocalInv, Accept, At, Active, Goto
<1>2. r \in Run /\ LocalOK(r)
  BY <1>1, ActiveRun
<1>3. /\ r.batch \in Batch /\ r.batch \in batches /\ r.batch # None
      /\ \A d \in Click : Active(d) /\ clicks[d].batch = r.batch => c = d
      /\ \A p \in Photo : jobs[<<r.batch, p>>] # "none" <=> p \in Own(r)
      /\ \A p \in Own(r) \cap Photo : keys[KeyOf(r, p)] = r.batch
  BY <1>1, InBatch
<1>4. q \in Photo /\ i \in Item
  BY <1>1, <1>3, AtPhoto DEF Looping, Item
<1>5. clicks'[c] = [r EXCEPT !.pc = "accepted"]
      /\ \A d \in Click \ {c} : clicks'[d] = clicks[d]
  BY <1>1 DEF TypeOK
<1>6. clicks'[c] \in Run /\ clicks'[c] # None /\ clicks'[c].batch = r.batch
      /\ clicks'[c].profile = r.profile /\ clicks'[c].links = r.links
  BY <1>2, <1>5, NoneApart DEF Run
<1>7. LocalOK(clicks'[c]) /\ Own(clicks'[c]) = Own(r) \cup {q}
  BY <1>1, <1>2, <1>5 DEF LocalOK, Looping, Own, Run
<1>8. \A b \in Batch, p \in Photo :
         jobs'[<<b, p>>] = IF b = r.batch /\ p = q THEN "queued" ELSE jobs[<<b, p>>]
  BY <1>1, <1>4 DEF TypeOK, Item
<1>15. k \in Key
  BY <1>1, <1>4, ActiveRun, KeyType
<1>16. \A l \in Key : keys'[l] = IF l = k THEN r.batch ELSE keys[l]
  BY <1>1, <1>15 DEF TypeOK
<1>17. k = KeyOf(r, q) /\ \A p : KeyOf(clicks'[c], p) = KeyOf(r, p)
  BY <1>6 DEF KeyOf
<1> HIDE DEF q, i, k
<1>9. TypeOK'
  <2>1. clicks' \in [Click -> Run \cup {None}]
    BY <1>1, <1>6 DEF TypeOK
  <2>2. jobs' \in [Item -> {"none", "queued", "success", "failed"}]
    BY <1>1, <1>4 DEF TypeOK
  <2>3. keys' \in [Key -> Batch \cup {None}]
    BY <1>1, <1>3, <1>15 DEF TypeOK
  <2> QED BY <1>1, <2>1, <2>2, <2>3 DEF TypeOK, page, input
<1>10. ClicksOK'
  BY <1>1, <1>5, <1>7 DEF ClicksOK, Active
<1>11. BatchesApart'
  BY <1>1, <1>3, <1>5, <1>6 DEF BatchesApart, Active
<1>12. JobsOwned'
  <2>1. ASSUME NEW d \in Click, Active(d)', clicks'[d].batch # None, NEW p \in Photo
        PROVE  /\ jobs'[<<clicks'[d].batch, p>>] # "none" <=> p \in Own(clicks'[d])
               /\ p \in Own(clicks'[d]) => keys'[KeyOf(clicks'[d], p)] = clicks'[d].batch
    <3>1. CASE d = c
      <4>1. jobs'[<<clicks'[d].batch, p>>] # "none" <=> p \in Own(clicks'[d])
        BY <3>1, <1>3, <1>6, <1>7, <1>8
      <4>2. ASSUME p \in Own(clicks'[d])
            PROVE  keys'[KeyOf(r, p)] = r.batch
        <5>1. KeyOf(r, p) \in Key
          BY <1>1, ActiveRun, KeyType
        <5>2. p # q => keys[KeyOf(r, p)] = r.batch
          BY <3>1, <4>2, <1>3, <1>7
        <5> QED BY <5>1, <5>2, <1>16, <1>17
      <4> QED BY <3>1, <4>1, <4>2, <1>6, <1>17
    <3>2. CASE d # c
      <4>1. Active(d) /\ clicks'[d] = clicks[d] /\ clicks[d].batch # None
        BY <2>1, <3>2, <1>5 DEF Active
      <4>2. clicks[d].batch \in Batch /\ clicks[d].batch # r.batch
        BY <4>1, <3>2, <1>1, <1>3, ActiveRun
      <4>3. /\ jobs[<<clicks[d].batch, p>>] # "none" <=> p \in Own(clicks[d])
            /\ p \in Own(clicks[d]) => keys[KeyOf(clicks[d], p)] = clicks[d].batch
        BY <4>1, <1>1 DEF JobsOwned
      <4>4. KeyOf(clicks[d], p) \in Key
        <5>1. clicks[d].pc # "count"
          BY <4>1, <4>2, <1>1, ActiveRun
        <5> QED BY <4>1, <5>1, <1>1, ActiveRun, KeyType
      <4>5. p \in Own(clicks[d]) => keys'[KeyOf(clicks[d], p)] = clicks[d].batch
        BY <4>1, <4>3, <4>4, <1>1, <1>16
      <4> QED BY <4>1, <4>2, <4>3, <4>5, <1>8
    <3> QED BY <3>1, <3>2
  <2> QED BY <2>1 DEF JobsOwned
<1>13. JobsPlaced'
  BY <1>1, <1>3, <1>8, <1>16 DEF JobsPlaced
<1>14. IsFiniteSet(Open)'
  <2>1. Open' \subseteq Open \cup {i}
    BY <1>1, <1>4 DEF Open, TypeOK
  <2> QED BY <1>1, <2>1, FS_AddElement, FS_Subset
<1> QED BY <1>9, <1>10, <1>11, <1>12, <1>13, <1>14 DEF LocalInv

-----------------------------------------------------------------------------
(* The user and the worker leave the calls alone *)

LEMMA CallsUntouched ==
    ASSUME LocalInv, TypeOK', clicks' = clicks, batches' = batches, keys' = keys,
           IsFiniteSet(Open)', \A i \in Item : NoJob(i)' <=> NoJob(i)
    PROVE  LocalInv'
<1>1. \A b \in Batch, p \in Photo : jobs'[<<b, p>>] = "none" <=> jobs[<<b, p>>] = "none"
  BY DEF NoJob, Item
<1>2. TypeOK /\ ClicksOK /\ BatchesApart /\ JobsOwned /\ JobsPlaced
  BY DEF LocalInv
<1>3. ClicksOK' /\ BatchesApart'
  BY <1>2 DEF ClicksOK, BatchesApart, Active
<1>4. JobsOwned'
  <2>1. ASSUME NEW c \in Click, Active(c), clicks[c].batch # None
        PROVE  clicks[c].batch \in Batch
    BY <1>2, <2>1, ActiveRun
  <2> QED BY <1>1, <1>2, <2>1 DEF JobsOwned, Active
<1>5. JobsPlaced'
  BY <1>1, <1>2 DEF JobsPlaced
<1> QED BY <1>3, <1>4, <1>5 DEF LocalInv

LEMMA EditLocal ==
    ASSUME LocalInv, Edit, selection' \in Selections, form' \in Form
    PROVE  LocalInv'
<1>1. TypeOK /\ IsFiniteSet(Open)
  BY DEF LocalInv
<1>2. /\ wanted' \in {selection', None}
      /\ UNCHANGED <<queuedBatchIds, pending, clicks, message, server>>
  BY DEF Edit
<1>3. TypeOK'
  BY <1>1, <1>2 DEF TypeOK, server
<1> QED BY <1>1, <1>2, <1>3, CallsUntouched DEF server, Open, NoJob

LEMMA AddPhotoLocal ==
    ASSUME LocalInv, NEW p \in Photo, AddPhoto(p)
    PROVE  LocalInv'
<1>1. selection' \in Selections /\ form' \in Form
  BY AppendSelection DEF AddPhoto, LocalInv, TypeOK
<1> QED BY <1>1, EditLocal DEF AddPhoto

LEMMA RemovePhotoLocal ==
    ASSUME LocalInv, NEW p \in Photo, RemovePhoto(p)
    PROVE  LocalInv'
<1>1. selection' \in Selections /\ form' \in Form
  BY WithoutSelection DEF RemovePhoto, LocalInv, TypeOK
<1> QED BY <1>1, EditLocal DEF RemovePhoto

LEMMA EditFormLocal ==
    ASSUME LocalInv, EditForm
    PROVE  LocalInv'
BY EditLocal DEF EditForm, LocalInv, TypeOK

LEMMA ViewLocal ==
    ASSUME LocalInv, NEW b \in Batch, View(b)
    PROVE  LocalInv'
<1>1. TypeOK /\ IsFiniteSet(Open)
  BY DEF LocalInv
<1>2. /\ pending' \subseteq pending
      /\ UNCHANGED <<input, queuedBatchIds, clicks, message, wanted, server>>
  BY DEF View
<1>3. TypeOK'
  BY <1>1, <1>2 DEF TypeOK, input, server
<1> QED BY <1>1, <1>2, <1>3, CallsUntouched DEF server, Open, NoJob

LEMMA RetryItemLocal ==
    ASSUME LocalInv, NEW i \in Item, RetryItem(i)
    PROVE  LocalInv'
<1>1. TypeOK /\ IsFiniteSet(Open)
  BY DEF LocalInv
<1>2. /\ jobs[i] = "failed" /\ jobs' = [jobs EXCEPT ![i] = "queued"]
      /\ UNCHANGED <<page, clicks, batches, keys>>
  BY DEF RetryItem
<1>3. TypeOK' /\ \A j \in Item : NoJob(j)' <=> NoJob(j)
  BY <1>1, <1>2 DEF TypeOK, page, input, NoJob
<1>4. Open' \subseteq Open \cup {i}
  BY <1>1, <1>2 DEF Open, TypeOK
<1>5. IsFiniteSet(Open)'
  BY <1>1, <1>4, FS_AddElement, FS_Subset
<1> QED BY <1>2, <1>3, <1>5, CallsUntouched

LEMMA WorkLocal ==
    ASSUME LocalInv, NEW i \in Item, Work(i)
    PROVE  LocalInv'
<1>1. TypeOK /\ IsFiniteSet(Open)
  BY DEF LocalInv
<1>2. PICK outcome \in {"success", "failed"} : jobs' = [jobs EXCEPT ![i] = outcome]
  BY DEF Work
<1>3. jobs[i] = "queued" /\ UNCHANGED <<page, clicks, batches, keys>>
  BY DEF Work
<1>4. TypeOK' /\ \A j \in Item : NoJob(j)' <=> NoJob(j)
  BY <1>1, <1>2, <1>3 DEF TypeOK, page, input, NoJob
<1>5. Open' \subseteq Open
  BY <1>1, <1>2 DEF Open, TypeOK
<1>6. IsFiniteSet(Open)'
  BY <1>1, <1>5, FS_Subset
<1> QED BY <1>3, <1>4, <1>6, CallsUntouched

(* The moves of a call, and the set of open jobs with them. *)
LEMMA MovesKeepLocal ==
    ASSUME LocalInv, NEW c \in Click, TypeOK', Moves(c), jobs' = jobs
    PROVE  LocalInv'
<1>1. TypeOK /\ IsFiniteSet(Open) /\ ClicksOK /\ BatchesApart /\ JobsOwned /\ JobsPlaced
  BY DEF LocalInv
<1>2. ClicksOK' /\ BatchesApart' /\ JobsOwned' /\ JobsPlaced'
  BY <1>1, MovesLocal
<1>3. IsFiniteSet(Open)'
  BY <1>1 DEF Open
<1> QED BY <1>2, <1>3 DEF LocalInv

LEMMA BackgroundMoves ==
    ASSUME LocalInv, NEW c \in Click,
           \/ Press(c) \/ Count(c) \/ Created(c) \/ Read(c) \/ Refuse(c)
           \/ Accepted(c) \/ Refused(c) \/ GivesUp(c)
    PROVE  TypeOK' /\ Moves(c) /\ jobs' = jobs
<1>1. TypeOK' /\ Moves(c)
  BY PressMoves, CountMoves, CreatedMoves, ReadMoves, RefuseMoves, AcceptedMoves,
     RefusedMoves, GivesUpMoves
<1>2. jobs' = jobs
  BY DEF Press, Count, Created, Read, Refuse, Accepted, Refused, GivesUp, server
<1> QED BY <1>1, <1>2

LEMMA InitLocal == Init => LocalInv
<1> SUFFICES ASSUME Init PROVE LocalInv
  OBVIOUS
<1>1. TypeOK
  BY EmptySelection DEF Init, TypeOK, Message, Item
<1>2. \A i \in Item : jobs[i] = "none"
  BY DEF Init
<1>3. Open = {}
  BY <1>2 DEF Open
<1>4. \A b \in Batch, p \in Photo : jobs[<<b, p>>] = "none"
  BY <1>2 DEF Item
<1>5. \A c \in Click : ~Active(c)
  BY DEF Init, Active
<1>6. \A k \in Key : keys[k] = None
  BY DEF Init
<1> QED
  BY <1>1, <1>3, <1>4, <1>5, <1>6, FS_EmptySet
  DEF LocalInv, ClicksOK, BatchesApart, JobsOwned, JobsPlaced

LEMMA LocalStep == LocalInv /\ [Next]_vars => LocalInv'
<1> SUFFICES ASSUME LocalInv, [Next]_vars PROVE LocalInv'
  OBVIOUS
<1>1. ASSUME NEW p \in Photo, AddPhoto(p) PROVE LocalInv'
  BY <1>1, AddPhotoLocal
<1>2. ASSUME NEW p \in Photo, RemovePhoto(p) PROVE LocalInv'
  BY <1>2, RemovePhotoLocal
<1>3. ASSUME NEW b \in Batch, View(b) PROVE LocalInv'
  BY <1>3, ViewLocal
<1>4. ASSUME NEW i \in Item, RetryItem(i) PROVE LocalInv'
  BY <1>4, RetryItemLocal
<1>5. ASSUME NEW i \in Item, Work(i) PROVE LocalInv'
  BY <1>5, WorkLocal
<1>6. ASSUME NEW c \in Click, CreateBatch(c) PROVE LocalInv'
  BY <1>6, CreateBatchLocal
<1>7. ASSUME NEW c \in Click, Accept(c) PROVE LocalInv'
  BY <1>7, AcceptLocal
<1>8. ASSUME NEW c \in Click,
             \/ Press(c) \/ Count(c) \/ Created(c) \/ Read(c) \/ Refuse(c)
             \/ Accepted(c) \/ Refused(c) \/ GivesUp(c)
      PROVE  LocalInv'
  BY <1>8, BackgroundMoves, MovesKeepLocal
<1>9. CASE UNCHANGED vars
  <2>1. TypeOK'
    BY <1>9 DEF LocalInv, TypeOK, vars, page, input, server
  <2>2. IsFiniteSet(Open)'
    BY <1>9 DEF LocalInv, Open, vars, server
  <2> QED BY <1>9, <2>1, <2>2, CallsUntouched DEF vars, server, NoJob
<1>10. ASSUME EditForm PROVE LocalInv'
  BY <1>10, EditFormLocal
<1> QED
  BY <1>1, <1>2, <1>3, <1>4, <1>5, <1>6, <1>7, <1>8, <1>9, <1>10 DEF Next, User, Background

(* Every variable stays what it is declared to be: selections are lists of *)
(* different photos, retries are kept for items, a call has its locals.    *)
THEOREM TypeCorrect == Spec => []TypeOK
<1>1. LocalInv => TypeOK
  BY DEF LocalInv
<1> QED BY <1>1, InitLocal, LocalStep, PTL DEF Spec

-----------------------------------------------------------------------------
(* Photos kept for a retry, and what the page reports *)

(* What is let go of is estimated, or an item of the call's own batch.     *)
LEMMA HeadsKept ==
    ASSUME LocalInv, HeadKept, NEW c \in Click, Others(c),
           \A i \in pending : i \notin pending' =>
               \/ jobs[i] = "success"
               \/ Active(c) /\ clicks[c].batch \in Batch /\ i[1] = clicks[c].batch,
           clicks'[c] # None /\ clicks'[c].pc \in Looping \ {"accepted"} =>
               <<clicks'[c].batch, Head(clicks'[c].rest)>> \in pending'
    PROVE  HeadKept'
<1>1. TypeOK /\ ClicksOK /\ BatchesApart /\ JobsOwned
  BY DEF LocalInv
<1>2. ASSUME NEW d \in Click, clicks'[d] # None, clicks'[d].pc \in Looping \ {"accepted"}, d # c
      PROVE  <<clicks'[d].batch, Head(clicks'[d].rest)>> \in pending'
  <2> DEFINE r == clicks[d]
             i == <<r.batch, Head(r.rest)>>
  <2>1. clicks'[d] = r /\ Active(d) /\ r.pc \in Looping \ {"accepted"}
    BY <1>2 DEF Others, Active
  <2>2. i \in pending
    BY <2>1 DEF HeadKept
  <2>3. /\ r.batch \in Batch
        /\ \A e \in Click : Active(e) /\ clicks[e].batch = r.batch => d = e
        /\ \A p \in Photo : jobs[<<r.batch, p>>] # "none" <=> p \in Own(r)
    BY <1>1, <2>1, InBatch DEF Looping
  <2>4. Head(r.rest) \in Photo /\ Head(r.rest) \notin Own(r)
    BY <1>1, <2>1, AtPhoto DEF Own
  <2>5. jobs[i] = "none"
    BY <2>3, <2>4
  <2>6. ~(Active(c) /\ i[1] = clicks[c].batch)
    BY <1>2, <2>3
  <2> QED BY <2>1, <2>2, <2>5, <2>6
<1> QED BY <1>2 DEF HeadKept, Active

LEMMA MessageStays ==
    ASSUME LocalInv, MessageOK, NEW c \in Click, Moves(c), message' = message
    PROVE  MessageOK'
<1>1. TypeOK /\ None \notin batches
  BY NoneApart DEF LocalInv, TypeOK
<1>2. \A b \in Batch, p \in Photo : jobs'[<<b, p>>] = "none" <=> jobs[<<b, p>>] = "none"
  BY DEF Moves, NoJob, Item
<1>3. \A b \in batches : b \in Batch /\ b # None
  BY <1>1 DEF TypeOK
<1>4. batches' = batches
  BY DEF Moves
<1>5. ASSUME message.text = "try again", NEW d \in Click, clicks'[d] # None
      PROVE  clicks'[d].batch # message.batch
  BY <1>1, <1>5 DEF MessageOK, Moves, Active
<1> QED BY <1>2, <1>3, <1>4, <1>5 DEF MessageOK, Active

LEMMA ContinueKeeps ==
    ASSUME LocalInv, HeadKept, RetryAvailable, MessageOK, NEW c \in Click, Active(c),
           clicks[c].pc \notin {"count", "create"}, Moves(c),
           NEW rest \in Selections, NEW accepted \in SUBSET Photo,
           NEW kept \in SUBSET Item, NEW stopped \in BOOLEAN,
           Continue(c, rest, accepted, kept, stopped),
           accepted = Own(clicks[c]),
           \A i \in pending \ kept : i[1] = clicks[c].batch /\ jobs[i] = "none",
           UNCHANGED server
    PROVE  HeadKept' /\ RetryAvailable' /\ MessageOK'
<1> DEFINE r == clicks[c]
<1>1. TypeOK /\ ClicksOK /\ BatchesApart /\ JobsOwned /\ JobsPlaced
  BY DEF LocalInv
<1>2. /\ r.batch \in Batch /\ r.batch \in batches
      /\ \A d \in Click : Active(d) /\ clicks[d].batch = r.batch => c = d
      /\ \A p \in Photo : jobs[<<r.batch, p>>] # "none" <=> p \in Own(r)
  BY <1>1, InBatch
<1>3. /\ Others(c)
      /\ pending' \subseteq Item
      /\ \/ GoesOn(c, rest, accepted, kept)
         \/ EndsQueued(c, accepted, kept)
         \/ EndsEmpty(c, accepted, kept)
  BY <1>1, <1>2, ContinueCases
<1>4. \A i \in pending : i \in Item
  BY <1>1 DEF TypeOK
<1>5. ASSUME NEW i \in pending, i \notin pending'
      PROVE  i[1] = r.batch /\ jobs[i] \notin {"queued", "failed"}
  <2>1. CASE i \notin kept
    BY <2>1
  <2>2. CASE i \in kept
    <3>1. EndsEmpty(c, accepted, kept) /\ i[1] = r.batch
      BY <1>3, <1>5, <2>2 DEF GoesOn, EndsQueued, EndsEmpty
    <3>2. Own(r) = {}
      BY <3>1 DEF EndsEmpty
    <3>3. PICK b \in Batch, p \in Photo : i = <<b, p>>
      BY <1>4 DEF Item
    <3> QED BY <1>2, <3>1, <3>2, <3>3
  <2> QED BY <2>1, <2>2
<1>6. clicks'[c] # None =>
         /\ GoesOn(c, rest, accepted, kept)
         /\ clicks'[c].batch = r.batch /\ clicks'[c].rest = rest
  <2>1. r \in Run
    BY <1>1, ActiveRun
  <2> QED BY <1>3, <2>1 DEF GoesOn, EndsQueued, EndsEmpty, Run
<1>7. HeadKept'
  <2>1. clicks'[c] # None => <<clicks'[c].batch, Head(clicks'[c].rest)>> \in pending'
    BY <1>6 DEF GoesOn
  <2> QED BY <1>2, <1>3, <1>5, <2>1, HeadsKept
<1>8. RetryAvailable'
  BY <1>5 DEF RetryAvailable, server
<1>9. MessageOK'
  <2>1. CASE GoesOn(c, rest, accepted, kept)
    BY <2>1, MessageStays DEF GoesOn
  <2>2. CASE EndsQueued(c, accepted, kept)
    <3>1. message' = [text |-> "queued", batch |-> r.batch]
      BY <2>2 DEF EndsQueued
    <3>2. PICK p \in Photo : p \in Own(r)
      BY <2>2 DEF EndsQueued
    <3>3. jobs'[<<r.batch, p>>] # "none"
      BY <1>2, <3>2 DEF server
    <3> QED BY <1>2, <3>1, <3>3 DEF MessageOK
  <2>3. CASE EndsEmpty(c, accepted, kept)
    <3>1. message' = [text |-> "try again", batch |-> r.batch] /\ clicks'[c] = None
      BY <2>3 DEF EndsEmpty
    <3>2. \A p \in Photo : jobs'[<<r.batch, p>>] = "none"
      BY <1>2, <2>3 DEF EndsEmpty, server
    <3>3. \A d \in Click : clicks'[d] # None => clicks'[d].batch # r.batch
      BY <1>2, <1>3, <3>1 DEF Others, Active
    <3> QED BY <1>2, <3>1, <3>2, <3>3 DEF MessageOK, Active, server
  <2> QED BY <1>3, <2>1, <2>2, <2>3
<1> QED BY <1>7, <1>8, <1>9

(* A step that keeps every photo and says nothing of a batch's success.    *)
LEMMA QuietKeeps ==
    ASSUME LocalInv, HeadKept, RetryAvailable, MessageOK, NEW c \in Click, Moves(c),
           jobs' = jobs, pending' = pending,
           message' = message \/ message'.text \notin {"queued", "try again"},
           \/ clicks'[c] = None \/ clicks'[c].pc \notin Looping
           \/ /\ Active(c) /\ clicks[c].pc \in Looping \ {"accepted"}
              /\ clicks'[c].batch = clicks[c].batch /\ clicks'[c].rest = clicks[c].rest
    PROVE  HeadKept' /\ RetryAvailable' /\ MessageOK'
<1>1. Others(c)
  BY DEF Moves, Others
<1>2. HeadKept'
  <2>1. clicks'[c] # None /\ clicks'[c].pc \in Looping \ {"accepted"} =>
            <<clicks'[c].batch, Head(clicks'[c].rest)>> \in pending'
    BY DEF HeadKept
  <2> QED BY <1>1, <2>1, HeadsKept
<1>3. RetryAvailable'
  BY DEF RetryAvailable
<1>4. MessageOK'
  BY MessageStays DEF MessageOK
<1> QED BY <1>2, <1>3, <1>4

LEMMA QueueStep ==
    ASSUME LocalInv, HeadKept, RetryAvailable, MessageOK, [Next]_vars
    PROVE  HeadKept' /\ RetryAvailable' /\ MessageOK'
<1> DEFINE Goal == HeadKept' /\ RetryAvailable' /\ MessageOK'
<1>0. TypeOK /\ ClicksOK /\ BatchesApart /\ JobsOwned /\ JobsPlaced
  BY DEF LocalInv
<1>1. ASSUME Edit PROVE Goal
  <2>1. UNCHANGED <<pending, clicks, message, server>>
    BY <1>1 DEF Edit
  <2> QED BY <2>1 DEF HeadKept, RetryAvailable, MessageOK, Active, server
<1>2. ASSUME NEW b \in Batch, View(b) PROVE Goal
  <2>1. /\ pending' = {i \in pending : i[1] = b => jobs[i] # "success"}
        /\ UNCHANGED <<clicks, message, server>>
    BY <1>2 DEF View
  <2>2. RetryAvailable' /\ MessageOK'
    BY <2>1 DEF RetryAvailable, MessageOK, Active, server
  <2>3. ASSUME NEW c \in Click PROVE HeadKept'
    <3>1. Others(c)
      BY <2>1 DEF Others
    <3>2. \A i \in pending : i \notin pending' => jobs[i] = "success"
      BY <2>1
    <3>3. clicks'[c] # None /\ clicks'[c].pc \in Looping \ {"accepted"} =>
             <<clicks'[c].batch, Head(clicks'[c].rest)>> \in pending'
      <4> DEFINE r == clicks[c]
      <4>1. SUFFICES ASSUME Active(c), r.pc \in Looping \ {"accepted"}
                     PROVE  <<r.batch, Head(r.rest)>> \in pending'
        BY <2>1 DEF Active
      <4>2. \A p \in Photo : jobs[<<r.batch, p>>] # "none" <=> p \in Own(r)
        BY <1>0, <4>1, InBatch DEF Looping
      <4>3. Head(r.rest) \in Photo /\ Head(r.rest) \notin Own(r)
        BY <1>0, <4>1, AtPhoto DEF Own
      <4>4. <<r.batch, Head(r.rest)>> \in pending
        BY <4>1 DEF HeadKept
      <4> QED BY <2>1, <4>2, <4>3, <4>4
    <3> QED BY <3>1, <3>2, <3>3, HeadsKept
  <2>4. Click = {} => HeadKept'
    BY DEF HeadKept
  <2> QED BY <2>2, <2>3, <2>4
<1>3. ASSUME NEW i \in Item, RetryItem(i) PROVE Goal
  <2>1. /\ i \in pending /\ jobs[i] = "failed" /\ jobs' = [jobs EXCEPT ![i] = "queued"]
        /\ UNCHANGED <<page, clicks, batches, keys>>
    BY <1>3 DEF RetryItem
  <2>2. \A j \in Item : jobs'[j] = IF j = i THEN "queued" ELSE jobs[j]
    BY <1>0, <2>1 DEF TypeOK
  <2>3. \A b \in Batch, p \in Photo : jobs'[<<b, p>>] = "none" <=> jobs[<<b, p>>] = "none"
    BY <2>1, <2>2 DEF Item
  <2>4. HeadKept' /\ RetryAvailable'
    BY <2>1, <2>2 DEF HeadKept, RetryAvailable, Active, page
  <2>5. MessageOK'
    BY <1>0, <2>1, <2>3 DEF MessageOK, Active, page, TypeOK
  <2> QED BY <2>4, <2>5
<1>4. ASSUME NEW i \in Item, Work(i) PROVE Goal
  <2>1. PICK outcome \in {"success", "failed"} : jobs' = [jobs EXCEPT ![i] = outcome]
    BY <1>4 DEF Work
  <2>2. jobs[i] = "queued" /\ UNCHANGED <<page, clicks, batches, keys>>
    BY <1>4 DEF Work
  <2>3. \A j \in Item : jobs'[j] = IF j = i THEN outcome ELSE jobs[j]
    BY <1>0, <2>1 DEF TypeOK
  <2>4. \A b \in Batch, p \in Photo : jobs'[<<b, p>>] = "none" <=> jobs[<<b, p>>] = "none"
    BY <2>1, <2>2, <2>3 DEF Item
  <2>5. HeadKept' /\ RetryAvailable'
    BY <2>2, <2>3 DEF HeadKept, RetryAvailable, Active, page
  <2>6. MessageOK'
    BY <1>0, <2>2, <2>4 DEF MessageOK, Active, page, TypeOK
  <2> QED BY <2>5, <2>6
<1>5. ASSUME NEW c \in Click, CreateBatch(c) PROVE Goal
  <2>1. PICK b \in Batch \ batches :
           /\ batches' = batches \cup {b}
           /\ clicks' = [clicks EXCEPT ![c].pc = "created", ![c].batch = b]
    BY <1>5 DEF CreateBatch
  <2>2. Active(c) /\ UNCHANGED <<page, jobs, keys>>
    BY <1>5 DEF CreateBatch, At, Active
  <2>3. clicks[c] \in Run /\ Others(c)
        /\ clicks'[c] = [clicks[c] EXCEPT !.pc = "created", !.batch = b]
    BY <1>0, <2>1, <2>2, ActiveRun DEF TypeOK, Others
  <2>4. clicks'[c].pc = "created" /\ clicks'[c].batch = b
    BY <2>3 DEF Run
  <2>5. HeadKept'
    BY <2>2, <2>4, <2>3, HeadsKept DEF Looping, page
  <2>6. RetryAvailable'
    BY <2>2 DEF RetryAvailable, page
  <2>7. ASSUME message.text = "try again", NEW d \in Click, clicks'[d] # None
        PROVE  clicks'[d].batch # message.batch
    BY <2>1, <2>3, <2>4, <2>7 DEF MessageOK, Others, Active
  <2>8. MessageOK'
    BY <2>1, <2>2, <2>7 DEF MessageOK, Active, page
  <2> QED BY <2>5, <2>6, <2>8
<1>6. ASSUME NEW c \in Click, Accept(c) PROVE Goal
  <2> DEFINE r == clicks[c]
             i == <<r.batch, Head(r.rest)>>
  <2>1. /\ Active(c) /\ r.pc = "posted" /\ UNCHANGED <<page, batches>>
        /\ clicks' = [clicks EXCEPT ![c].pc = "accepted"]
        /\ jobs' = [jobs EXCEPT ![i] = "queued"]
    BY <1>6 DEF Accept, At, Active, Goto
  <2>2. r \in Run /\ r.batch \in Batch /\ i \in pending
    BY <1>0, <2>1, ActiveRun DEF HeadKept, Looping
  <2>3. Others(c) /\ clicks'[c] = [r EXCEPT !.pc = "accepted"]
    BY <1>0, <2>1 DEF TypeOK, Others
  <2>4. clicks'[c].pc = "accepted" /\ clicks'[c].batch = r.batch
    BY <2>2, <2>3 DEF Run
  <2>5. i \in Item /\ \A j \in Item : jobs'[j] = IF j = i THEN "queued" ELSE jobs[j]
    BY <1>0, <2>1, <2>2 DEF TypeOK
  <2> HIDE DEF i
  <2>6. HeadKept'
    BY <2>1, <2>3, <2>4, HeadsKept DEF page
  <2>7. RetryAvailable'
    BY <2>1, <2>2, <2>5 DEF RetryAvailable, page
  <2>8. MessageOK'
    <3>1. ASSUME message.text = "queued"
          PROVE  /\ message.batch \in Batch
                 /\ \E p \in Photo : jobs'[<<message.batch, p>>] # "none"
      BY <3>1, <2>5 DEF MessageOK, Item
    <3>2. ASSUME message.text = "try again"
          PROVE  /\ message.batch \in batches
                 /\ \A p \in Photo : jobs'[<<message.batch, p>>] = "none"
                 /\ \A d \in Click : clicks'[d] # None => clicks'[d].batch # message.batch
      <4>1. /\ message.batch \in batches /\ message.batch \in Batch
            /\ \A p \in Photo : jobs[<<message.batch, p>>] = "none"
            /\ \A d \in Click : Active(d) => clicks[d].batch # message.batch
        BY <3>2, <1>0 DEF MessageOK, TypeOK
      <4>2. r.batch # message.batch
        BY <4>1, <2>1
      <4>3. \A p \in Photo : <<message.batch, p>> \in Item /\ <<message.batch, p>> # i
        BY <4>1, <4>2 DEF Item, i
      <4>4. \A d \in Click : clicks'[d] # None => clicks'[d].batch # message.batch
        BY <4>1, <4>2, <2>1, <2>3, <2>4 DEF Others, Active
      <4> QED BY <4>1, <4>3, <4>4, <2>5
    <3> QED BY <3>1, <3>2, <2>1 DEF MessageOK, Active, page
  <2> QED BY <2>6, <2>7, <2>8
<1>7. ASSUME NEW c \in Click, Press(c) PROVE Goal
  <2>1. Moves(c) /\ jobs' = jobs
    BY <1>7, BackgroundMoves
  <2>2. UNCHANGED <<pending, message>>
    BY <1>7 DEF Press
  <2>3. clicks'[c].pc = "count"
    BY <1>0, <1>7 DEF Press, TypeOK
  <2> QED BY <2>1, <2>2, <2>3, QuietKeeps DEF Looping
<1>8. ASSUME NEW c \in Click, Count(c) PROVE Goal
  <2>1. Moves(c) /\ jobs' = jobs
    BY <1>8, BackgroundMoves
  <2>2. pending' = pending
    BY <1>8 DEF Count, page
  <2>3. \/ /\ clicks'[c] = None /\ message'.text \notin {"queued", "try again"}
        \/ /\ clicks'[c].pc = "create" /\ message' = message
    <3>1. Active(c) /\ clicks[c].pc = "count"
      BY <1>8, CountCases
    <3>2. CASE \E text \in {"full", "already"}, b \in Batch \cup {None} : End(c, text, b)
      <4>1. PICK text \in {"full", "already"}, b \in Batch \cup {None} : End(c, text, b)
        BY <3>2
      <4>2. clicks'[c] = None
        BY <1>0, <4>1 DEF End, TypeOK
      <4>3. message'.text = text
        BY <4>1 DEF End
      <4> QED BY <4>2, <4>3
    <3>3. CASE /\ \E n \in 0 .. Len(clicks[c].files) :
                      clicks' = [clicks EXCEPT ![c] = Prepared(c, n)]
               /\ UNCHANGED page
      <4>1. PICK n \in 0 .. Len(clicks[c].files) :
                    clicks' = [clicks EXCEPT ![c] = Prepared(c, n)]
        BY <3>3
      <4>2. clicks'[c].pc = "create"
        BY <1>0, <3>1, <4>1, PreparedOK DEF TypeOK
      <4> QED BY <3>3, <4>2 DEF page
    <3> QED BY <1>8, <3>2, <3>3, CountCases
  <2> QED BY <2>1, <2>2, <2>3, QuietKeeps DEF Looping
<1>9. ASSUME NEW c \in Click, Refuse(c) PROVE Goal
  <2>1. Moves(c) /\ jobs' = jobs
    BY <1>9, BackgroundMoves
  <2>2. UNCHANGED page /\ Active(c) /\ clicks[c].pc = "posted"
        /\ clicks' = [clicks EXCEPT ![c].pc = "refused"]
    BY <1>9 DEF Refuse, At, Active, Goto
  <2>3. clicks[c] \in Run
    BY <1>0, <2>2, ActiveRun
  <2>4. clicks'[c].batch = clicks[c].batch /\ clicks'[c].rest = clicks[c].rest
    BY <1>0, <2>2, <2>3 DEF TypeOK, Run
  <2> QED BY <2>1, <2>2, <2>4, QuietKeeps DEF page, Looping
<1>10. ASSUME NEW c \in Click, GivesUp(c) PROVE Goal
  <2>1. Moves(c) /\ jobs' = jobs
    BY <1>10, BackgroundMoves
  <2>2. pending' = pending /\ clicks'[c] = None /\ message'.text = "failed"
    BY <1>0, <1>10 DEF GivesUp, End, TypeOK
  <2> QED BY <2>1, <2>2, QuietKeeps
<1>11. ASSUME NEW c \in Click, Created(c) PROVE Goal
  <2> DEFINE r == clicks[c]
  <2>1. Moves(c) /\ jobs' = jobs
    BY <1>11, BackgroundMoves
  <2>2. Active(c) /\ r.pc = "created" /\ UNCHANGED server
        /\ Continue(c, r.prepared, {}, pending, FALSE)
    BY <1>11 DEF Created, At, Active
  <2>3. LocalOK(r) /\ r.prepared \in Selections
    BY <1>0, <2>2, ActiveRun
  <2>4. Own(r) = {}
    BY <2>2, <2>3 DEF LocalOK, Looping, Own
  <2>5. pending \in SUBSET Item
    BY <1>0 DEF TypeOK
  <2> QED BY <2>1, <2>2, <2>3, <2>4, <2>5, ContinueKeeps
<1>12. ASSUME NEW c \in Click, Read(c) PROVE Goal
  <2> DEFINE r == clicks[c]
             kept == pending \ {<<r.batch, Head(r.rest)>>}
  <2>1. Moves(c) /\ jobs' = jobs
    BY <1>12, BackgroundMoves
  <2>2. Active(c) /\ r.pc = "reading" /\ UNCHANGED server
    BY <1>12 DEF Read, At, Active
  <2>3. r \in Run /\ r.accepted \in SUBSET Photo /\ Own(r) = r.accepted
    BY <1>0, <2>2, ActiveRun DEF Own
  <2>4. Head(r.rest) \in Photo /\ Head(r.rest) \notin Own(r) /\ Tail(r.rest) \in Selections
    BY <1>0, <2>2, <2>3, AtPhoto DEF Looping
  <2>5. jobs[<<r.batch, Head(r.rest)>>] = "none"
    BY <1>0, <2>2, <2>4, InBatch
  <2>6. CASE Head(r.rest) \in Large
    <3>1. Continue(c, Tail(r.rest), r.accepted, kept, FALSE)
      BY <1>12, <2>6 DEF Read
    <3>2. kept \in SUBSET Item /\ \A i \in pending \ kept : i[1] = r.batch /\ jobs[i] = "none"
      BY <1>0, <2>5 DEF TypeOK
    <3> HIDE DEF kept
    <3> QED BY <2>1, <2>2, <2>3, <2>4, <3>1, <3>2, ContinueKeeps
  <2>7. CASE Head(r.rest) \notin Large
    <3>1. UNCHANGED <<pending, message>> /\ clicks' = [clicks EXCEPT ![c].pc = "posted"]
      BY <1>12, <2>7 DEF Read, Goto
    <3>2. clicks'[c].batch = r.batch /\ clicks'[c].rest = r.rest
      BY <1>0, <2>3, <3>1 DEF TypeOK, Run
    <3> QED BY <2>1, <2>2, <3>1, <3>2, QuietKeeps DEF Looping
  <2> QED BY <2>6, <2>7
<1>13. ASSUME NEW c \in Click, Accepted(c) PROVE Goal
  <2> DEFINE r == clicks[c]
  <2>1. Moves(c) /\ jobs' = jobs
    BY <1>13, BackgroundMoves
  <2>2. Active(c) /\ r.pc = "accepted" /\ UNCHANGED server
        /\ Continue(c, Tail(r.rest), r.accepted \cup {Head(r.rest)}, pending, FALSE)
    BY <1>13 DEF Accepted, At, Active
  <2>3. r.accepted \in SUBSET Photo /\ Head(r.rest) \in Photo /\ Tail(r.rest) \in Selections
    BY <1>0, <2>2, ActiveRun, AtPhoto DEF Looping
  <2>4. r.accepted \cup {Head(r.rest)} = Own(r)
    BY <2>2 DEF Own
  <2>5. pending \in SUBSET Item
    BY <1>0 DEF TypeOK
  <2> QED BY <2>1, <2>2, <2>3, <2>4, <2>5, ContinueKeeps
<1>14. ASSUME NEW c \in Click, Refused(c) PROVE Goal
  <2> DEFINE r == clicks[c]
             kept == pending \ {<<r.batch, Head(r.rest)>>}
  <2>1. Moves(c) /\ jobs' = jobs
    BY <1>14, BackgroundMoves
  <2>2. Active(c) /\ r.pc = "refused" /\ UNCHANGED server
        /\ Continue(c, Tail(r.rest), r.accepted, kept, TRUE)
    BY <1>14 DEF Refused, At, Active
  <2>3. r.accepted \in SUBSET Photo /\ Own(r) = r.accepted
    BY <1>0, <2>2, ActiveRun DEF Own
  <2>4. Head(r.rest) \in Photo /\ Head(r.rest) \notin Own(r) /\ Tail(r.rest) \in Selections
    BY <1>0, <2>2, <2>3, AtPhoto DEF Looping
  <2>5. jobs[<<r.batch, Head(r.rest)>>] = "none"
    BY <1>0, <2>2, <2>4, InBatch
  <2>6. kept \in SUBSET Item /\ \A i \in pending \ kept : i[1] = r.batch /\ jobs[i] = "none"
    BY <1>0, <2>5 DEF TypeOK
  <2> HIDE DEF kept
  <2> QED BY <2>1, <2>2, <2>3, <2>4, <2>6, ContinueKeeps
<1>15. CASE UNCHANGED vars
  BY <1>15 DEF HeadKept, RetryAvailable, MessageOK, Active, vars, page, server
<1> QED
  BY <1>1, <1>2, <1>3, <1>4, <1>5, <1>6, <1>7, <1>8, <1>9, <1>10, <1>11, <1>12, <1>13,
     <1>14, <1>15
  DEF Next, User, Background, AddPhoto, RemovePhoto, EditForm

LEMMA QueueInvariant == Spec => []QueueInv
<1>1. Init => QueueInv
  <2> SUFFICES ASSUME Init PROVE HeadKept /\ RetryAvailable /\ MessageOK
    BY InitLocal DEF QueueInv
  <2> QED BY DEF Init, HeadKept, RetryAvailable, MessageOK, Active
<1>2. QueueInv /\ [Next]_vars => QueueInv'
  BY LocalStep, QueueStep DEF QueueInv
<1> QED BY <1>1, <1>2, PTL DEF Spec

(* An item the server accepted from this tab and has not estimated is kept *)
(* for a retry (app.js 33-35), whatever answers got lost and whatever      *)
(* other runs submitted or let go of.                                      *)
THEOREM RetryAvailableHolds == Spec => []RetryAvailable
<1>1. QueueInv => RetryAvailable
  BY DEF QueueInv
<1> QED BY <1>1, QueueInvariant, PTL

(* "Queued" is only said of a batch that has a job, "No photos were        *)
(* queued" only of one that has none (app.js 1675-1715), as long as the    *)
(* report stands: no call submits to that batch afterwards.                *)
THEOREM ReportHonestHolds == Spec => []ReportHonest
<1>1. QueueInv => ReportHonest
  BY DEF QueueInv, MessageOK, ReportHonest
<1> QED BY <1>1, QueueInvariant, PTL

-----------------------------------------------------------------------------
(* The selection, set by runs that overlap *)

(* The photos a call made the server keep include its first one of         *)
(* acceptable size.                                                        *)
LEMMA OwnFirst ==
    ASSUME TypeOK, ClicksOK, NEW c \in Click, Active(c), clicks[c].pc \in Looping,
           Own(clicks[c]) # {}
    PROVE  \E k \in 1 .. Len(clicks[c].files) :
               /\ clicks[c].files[k] \in Own(clicks[c])
               /\ clicks[c].files[k] \notin Large
               /\ \A j \in 1 .. k - 1 : clicks[c].files[j] \in Large
<1> DEFINE r == clicks[c]
           all == r.prepared
<1>1. r \in Run /\ LocalOK(r) /\ all \in Selections /\ r.files \in Selections
      /\ r.rest \in Selections
  BY ActiveRun
<1>2. /\ Len(all) \in Nat /\ Len(r.files) \in Nat /\ Len(all) <= Len(r.files)
      /\ \A i \in 1 .. Len(all) : all[i] = r.files[i]
  BY <1>1, SelectionFacts DEF LocalOK, Looping
<1>3. PICK m \in 0 .. Len(all) : Own(r) = {all[i] : i \in 1 .. m} \ Large
  <2>1. /\ r.accepted = Before(r.rest, all) \ Large
        /\ Before(Tail(r.rest), all) = Before(r.rest, all) \cup {Head(r.rest)}
        /\ Suffix(Tail(r.rest), all) /\ Tail(r.rest) \in Selections
        /\ r.pc # "reading" => Head(r.rest) \notin Large
    BY AtPhoto
  <2>2. Suffix(r.rest, all)
    BY <1>1 DEF LocalOK
  <2>3. CASE r.pc = "accepted"
    <3> DEFINE n == Len(all) - Len(Tail(r.rest))
    <3>1. Own(r) = {all[i] : i \in 1 .. n} \ Large
      BY <2>1, <2>3 DEF Own, Before
    <3>2. n \in 0 .. Len(all)
      <4>1. Len(Tail(r.rest)) \in Nat
        BY <2>1, SelectionFacts
      <4>2. Len(Tail(r.rest)) <= Len(all)
        BY <2>1 DEF Suffix
      <4>3. Len(all) \in Nat
        BY <1>2
      <4>4. \A a, b \in Nat : a <= b => b - a \in 0 .. b
        OBVIOUS
      <4> QED BY <4>1, <4>2, <4>3, <4>4, Zenon
    <3> HIDE DEF n
    <3> QED BY <3>1, <3>2
  <2>4. CASE r.pc # "accepted"
    <3> DEFINE n == Len(all) - Len(r.rest)
    <3>1. Own(r) = {all[i] : i \in 1 .. n} \ Large
      BY <2>1, <2>4 DEF Own, Before
    <3>2. n \in 0 .. Len(all)
      <4>1. Len(r.rest) \in Nat
        BY <1>1, SelectionFacts
      <4>2. Len(r.rest) <= Len(all)
        BY <2>2 DEF Suffix
      <4>3. Len(all) \in Nat
        BY <1>2
      <4>4. \A a, b \in Nat : a <= b => b - a \in 0 .. b
        OBVIOUS
      <4> QED BY <4>1, <4>2, <4>3, <4>4, Zenon
    <3> HIDE DEF n
    <3> QED BY <3>1, <3>2
  <2> QED BY <2>3, <2>4
<1> DEFINE T == {i \in 1 .. m : all[i] \notin Large}
<1>4. T \in SUBSET Nat /\ T # {}
  BY <1>3
<1>5. PICK k \in T : \A i \in T : k <= i
  BY <1>4, LeastNumber
<1>6. k \in 1 .. m /\ k \in 1 .. Len(r.files) /\ all[k] = r.files[k] /\ all[k] \notin Large
  BY <1>2, <1>5
<1>7. ASSUME NEW j \in 1 .. k - 1 PROVE r.files[j] \in Large
  <2>1. j \in 1 .. m /\ j \in 1 .. Len(all) /\ ~(k <= j)
    BY <1>2, <1>6
  <2>2. j \notin T
    BY <1>5, <2>1
  <2>3. all[j] = r.files[j]
    BY <1>2, <2>1
  <2> QED BY <2>1, <2>2, <2>3
<1>8. r.files[k] \in Own(r)
  BY <1>3, <1>6
<1> QED BY <1>6, <1>7, <1>8

(* A call does not leave being overtaken: keys stay, and a batch it gets   *)
(* is new.                                                                 *)
LEMMA OvertakenStays ==
    ASSUME NEW r, NEW t, r.files = t.files, form \in Form, Overtaken(r, form, keys),
           \A k \in Key : keys[k] # None => keys'[k] = keys[k],
           t.batch = r.batch \/ \A k \in Key : keys[k] # t.batch,
           r.files \in Selections
    PROVE  Overtaken(t, form, keys')
<1>1. PICK i \in 1 .. Len(r.files) :
          /\ r.files[i] \notin Large
          /\ \A j \in 1 .. i - 1 : r.files[j] \in Large
          /\ keys[KeyOf(form, r.files[i])] \in Batch \ {r.batch}
  BY DEF Overtaken
<1>2. KeyOf(form, r.files[i]) \in Key
  BY SelectionFacts, KeyType DEF Form
<1>3. keys'[KeyOf(form, r.files[i])] \in Batch \ {t.batch}
  BY <1>1, <1>2, NoneApart
<1> QED BY <1>1, <1>3 DEF Overtaken

(* What a step does to a call that stays, as far as the selection goes.    *)
Stays(d) ==
    /\ Active(d)
    /\ clicks'[d].files = clicks[d].files
    /\ clicks'[d].profile = clicks[d].profile
    /\ \/ clicks'[d].links = form.links
       \/ /\ clicks'[d].links = clicks[d].links
          /\ clicks[d].pc = "count" => clicks'[d].pc = "count"
    /\ \/ clicks'[d].batch = clicks[d].batch
       \/ \A k \in Key : keys[k] # clicks'[d].batch

LEMMA CallsStay ==
    ASSUME LocalInv, SelectionInv, UNCHANGED <<input, wanted>>,
           \A k \in Key : keys[k] # None => keys'[k] = keys[k],
           \A d \in Click : clicks'[d] # None => Stays(d)
    PROVE  SelectionInv'
<1>1. SelectionKept'
  BY DEF SelectionInv, SelectionKept, input
<1>2. ASSUME wanted # None, NEW d \in Click, clicks'[d] # None
      PROVE  /\ clicks'[d].profile = form.profile
             /\ clicks'[d].pc # "count" => clicks'[d].links = form.links
             /\ clicks'[d].files = selection \/ Overtaken(clicks'[d], form, keys')
  <2>1. Stays(d)
    BY <1>2
  <2>2. /\ clicks[d].profile = form.profile
        /\ clicks[d].pc # "count" => clicks[d].links = form.links
        /\ clicks[d].files = selection \/ Overtaken(clicks[d], form, keys)
    BY <1>2, <2>1 DEF SelectionInv, UpToDate, Stays
  <2>3. clicks[d].files \in Selections /\ form \in Form
    BY <2>1, ActiveRun DEF LocalInv, TypeOK, Stays
  <2>4. Overtaken(clicks[d], form, keys) => Overtaken(clicks'[d], form, keys')
    BY <2>1, <2>3, OvertakenStays DEF Stays
  <2> QED BY <2>1, <2>2, <2>4 DEF Stays
<1>3. UpToDate'
  BY <1>2 DEF UpToDate, Active, input
<1> QED BY <1>1, <1>3 DEF SelectionInv

(* The end of a run that takes its accepted photos out: its selection was  *)
(* up to date, and every other run that was is overtaken now.              *)
LEMMA QueuedKeeps ==
    ASSUME LocalInv, SelectionInv, NEW c \in Click, Active(c), clicks[c].pc \in Looping,
           NEW kept, EndsQueued(c, Own(clicks[c]), kept), Others(c),
           UNCHANGED <<form, keys>>
    PROVE  SelectionInv'
<1> DEFINE r == clicks[c]
<1>0. TypeOK /\ ClicksOK /\ BatchesApart /\ JobsOwned
  BY DEF LocalInv
<1>1. /\ Own(r) # {} /\ clicks'[c] = None
      /\ selection' = Without(r.files, Own(r))
      /\ wanted' = IF wanted = None THEN None ELSE Without(wanted, Own(r))
  BY DEF EndsQueued
<1>2. CASE wanted = None
  BY <1>1, <1>2 DEF SelectionInv, SelectionKept, UpToDate
<1>3. SUFFICES ASSUME wanted # None PROVE SelectionInv'
  BY <1>2
<1>4. PICK k \in 1 .. Len(r.files) :
          /\ r.files[k] \in Own(r)
          /\ r.files[k] \notin Large
          /\ \A j \in 1 .. k - 1 : r.files[j] \in Large
  BY <1>0, <1>1, OwnFirst
<1>5. /\ r.batch \in Batch
      /\ \A d \in Click : Active(d) /\ clicks[d].batch = r.batch => c = d
      /\ \A p \in Own(r) \cap Photo : keys[KeyOf(r, p)] = r.batch
  BY <1>0, InBatch DEF Looping
<1>6. r.files \in Selections /\ r.files[k] \in Photo /\ Len(r.files) \in Nat
  BY <1>0, ActiveRun, SelectionFacts
<1>7. /\ r.profile = form.profile /\ r.links = form.links
      /\ r.files = selection \/ Overtaken(r, form, keys)
  BY <1>3 DEF SelectionInv, UpToDate, Looping
<1>8. keys[KeyOf(form, r.files[k])] = r.batch
  <2>1. KeyOf(form, r.files[k]) = KeyOf(r, r.files[k])
    BY <1>7 DEF KeyOf
  <2> QED BY <1>4, <1>5, <1>6, <2>1
<1>9. r.files = selection
  <2>1. ASSUME Overtaken(r, form, keys) PROVE FALSE
    <3>1. PICK i \in 1 .. Len(r.files) :
              /\ r.files[i] \notin Large
              /\ \A j \in 1 .. i - 1 : r.files[j] \in Large
              /\ keys[KeyOf(form, r.files[i])] \in Batch \ {r.batch}
      BY <2>1 DEF Overtaken
    <3>2. i = k
      <4>1. ~(i \in 1 .. k - 1) /\ ~(k \in 1 .. i - 1)
        BY <1>4, <3>1
      <4> HIDE DEF r
      <4> QED BY <4>1, <1>6
    <3> QED BY <1>8, <3>1, <3>2
  <2> QED BY <1>7, <2>1
<1>10. SelectionKept'
  BY <1>1, <1>3, <1>9 DEF SelectionInv, SelectionKept
<1>11. ASSUME NEW d \in Click, clicks'[d] # None
       PROVE  /\ clicks'[d].profile = form.profile
              /\ clicks'[d].pc # "count" => clicks'[d].links = form.links
              /\ Overtaken(clicks'[d], form, keys)
  <2>1. d # c /\ clicks'[d] = clicks[d] /\ Active(d) /\ clicks[d].batch # r.batch
    BY <1>1, <1>5, <1>11 DEF Others, Active
  <2>2. /\ clicks[d].profile = form.profile
        /\ clicks[d].pc # "count" => clicks[d].links = form.links
        /\ clicks[d].files = selection \/ Overtaken(clicks[d], form, keys)
    BY <1>3, <2>1 DEF SelectionInv, UpToDate
  <2>3. clicks[d].files = selection => Overtaken(clicks[d], form, keys)
    BY <1>4, <1>5, <1>8, <1>9, <2>1 DEF Overtaken
  <2> QED BY <2>1, <2>2, <2>3
<1>12. UpToDate'
  BY <1>11 DEF UpToDate, Active
<1> QED BY <1>10, <1>12 DEF SelectionInv

(* Every step on from a photo keeps the selection.                         *)
LEMMA ContinueSelection ==
    ASSUME LocalInv, SelectionInv, NEW c \in Click, Active(c),
           clicks[c].pc \notin {"count", "create"}, UNCHANGED server,
           NEW rest \in Selections, NEW accepted \in SUBSET Photo,
           NEW kept \in SUBSET Item, NEW stopped \in BOOLEAN,
           Continue(c, rest, accepted, kept, stopped), accepted = Own(clicks[c])
    PROVE  SelectionInv'
<1> DEFINE r == clicks[c]
<1>0. TypeOK /\ ClicksOK
  BY DEF LocalInv
<1>1. r.batch \in Batch /\ r \in Run /\ LocalOK(r)
  BY <1>0, ActiveRun
<1>2. /\ Others(c) /\ form' = form
      /\ \/ GoesOn(c, rest, accepted, kept)
         \/ EndsQueued(c, accepted, kept)
         \/ EndsEmpty(c, accepted, kept)
  BY <1>0, <1>1, ContinueCases
<1>3. \A d \in Click \ {c} : clicks'[d] # None => Stays(d)
  BY <1>2 DEF Others, Stays, Active
<1>4. CASE GoesOn(c, rest, accepted, kept)
  <2>1. /\ clicks'[c].files = r.files /\ clicks'[c].batch = r.batch
        /\ clicks'[c].profile = r.profile /\ clicks'[c].links = r.links
    BY <1>1, <1>4 DEF GoesOn, Run
  <2>2. Stays(c)
    BY <2>1 DEF Stays
  <2> QED BY <1>2, <1>3, <1>4, <2>2, CallsStay DEF GoesOn, input, server
<1>5. CASE EndsEmpty(c, accepted, kept)
  BY <1>2, <1>3, <1>5, CallsStay DEF EndsEmpty, input, server
<1>6. CASE EndsQueued(c, accepted, kept)
  <2>1. r.pc \in Looping
    BY <1>1, <1>6 DEF EndsQueued, Own, LocalOK, Looping
  <2> QED BY <1>2, <1>6, <2>1, QueuedKeeps DEF server
<1> QED BY <1>2, <1>4, <1>5, <1>6

(* A call that ends without a change of the selection, or moves on with    *)
(* the selection and the fields it has.                                    *)
LEMMA QuietSelection ==
    ASSUME LocalInv, SelectionInv, NEW c \in Click, Others(c), UNCHANGED <<input, wanted, keys>>,
           clicks'[c] = None \/ Stays(c)
    PROVE  SelectionInv'
<1>1. \A d \in Click : clicks'[d] # None => Stays(d)
  BY DEF Others, Stays, Active
<1> QED BY <1>1, CallsStay

LEMMA PressSelection ==
    ASSUME LocalInv, SelectionInv, NEW c \in Click, Press(c)
    PROVE  SelectionInv'
<1> DEFINE r == [pc |-> "count", files |-> selection, profile |-> form.profile,
                 links |-> None, prepared |-> <<>>, batch |-> None, rest |-> <<>>,
                 accepted |-> {}]
<1>1. /\ clicks'[c] = r /\ Others(c)
      /\ UNCHANGED <<input, server>>
      /\ wanted' = IF Idle THEN selection ELSE wanted
  BY DEF Press, LocalInv, TypeOK, Others
<1>2. SelectionKept'
  BY <1>1 DEF SelectionInv, SelectionKept, input
<1>3. ASSUME wanted' # None, NEW d \in Click, clicks'[d] # None
      PROVE  /\ clicks'[d].profile = form.profile
             /\ clicks'[d].pc # "count" => clicks'[d].links = form.links
             /\ clicks'[d].files = selection \/ Overtaken(clicks'[d], form, keys)
  <2>1. CASE d = c
    BY <1>1, <2>1
  <2>2. CASE d # c
    <3>1. clicks'[d] = clicks[d] /\ Active(d) /\ ~Idle
      BY <1>1, <1>3, <2>2 DEF Others, Active, Idle
    <3> QED BY <1>1, <1>3, <3>1 DEF SelectionInv, UpToDate
  <2> QED BY <2>1, <2>2
<1>4. UpToDate'
  BY <1>1, <1>3 DEF UpToDate, Active, input, server
<1> QED BY <1>2, <1>4 DEF SelectionInv

LEMMA SelectionStep ==
    ASSUME LocalInv, SelectionInv, [Next]_vars
    PROVE  SelectionInv'
<1>0. TypeOK /\ ClicksOK /\ JobsPlaced
  BY DEF LocalInv
<1>1. ASSUME Edit PROVE SelectionInv'
  <2>1. clicks' = clicks /\ wanted' = IF Idle THEN selection' ELSE None
    BY <1>1 DEF Edit
  <2>2. SelectionKept'
    BY <2>1 DEF SelectionKept
  <2>3. UpToDate'
    BY <2>1 DEF UpToDate, Active, Idle
  <2> QED BY <2>2, <2>3 DEF SelectionInv
<1>2. ASSUME UNCHANGED <<input, wanted, clicks, keys>> PROVE SelectionInv'
  BY <1>2, CallsStay DEF Stays, Active
<1>3. ASSUME (\E b \in Batch : View(b)) \/ (\E i \in Item : RetryItem(i) \/ Work(i))
      PROVE  SelectionInv'
  BY <1>2, <1>3 DEF View, RetryItem, Work, page, server
<1>4. ASSUME NEW c \in Click, CreateBatch(c) PROVE SelectionInv'
  <2>1. PICK b \in Batch \ batches :
           clicks' = [clicks EXCEPT ![c].pc = "created", ![c].batch = b]
    BY <1>4 DEF CreateBatch
  <2>2. Active(c) /\ clicks[c].pc = "create" /\ UNCHANGED <<input, wanted, keys>>
    BY <1>4 DEF CreateBatch, At, Active, page
  <2>3. clicks[c] \in Run /\ Others(c)
        /\ clicks'[c] = [clicks[c] EXCEPT !.pc = "created", !.batch = b]
    BY <1>0, <2>1, <2>2, ActiveRun DEF TypeOK, Others
  <2>4. /\ clicks'[c].files = clicks[c].files /\ clicks'[c].batch = b
        /\ clicks'[c].profile = clicks[c].profile /\ clicks'[c].links = clicks[c].links
    BY <2>3 DEF Run
  <2>5. \A k \in Key : keys[k] # b
    BY <1>0, <2>1, NoneApart DEF JobsPlaced
  <2>6. Stays(c)
    BY <2>2, <2>4, <2>5 DEF Stays
  <2> QED BY <2>2, <2>3, <2>6, QuietSelection
<1>5. ASSUME NEW c \in Click, Accept(c) PROVE SelectionInv'
  <2> DEFINE r == clicks[c]
             k == KeyOf(r, Head(r.rest))
  <2>1. /\ Active(c) /\ r.pc = "posted" /\ UNCHANGED <<input, wanted>>
        /\ clicks' = [clicks EXCEPT ![c].pc = "accepted"]
        /\ keys[k] = None /\ keys' = [keys EXCEPT ![k] = r.batch]
    BY <1>5 DEF Accept, At, Active, Goto, page
  <2>2. r \in Run
    BY <1>0, <2>1, ActiveRun
  <2>3. Others(c) /\ clicks'[c] = [r EXCEPT !.pc = "accepted"]
    BY <1>0, <2>1 DEF TypeOK, Others
  <2>4. Stays(c)
    BY <2>1, <2>2, <2>3 DEF Run, Stays
  <2>5. \A l \in Key : keys[l] # None => keys'[l] = keys[l]
    <3> HIDE DEF k
    <3> QED BY <1>0, <2>1 DEF TypeOK
  <2>6. \A d \in Click : clicks'[d] # None => Stays(d)
    BY <2>3, <2>4 DEF Others, Stays, Active
  <2> QED BY <2>1, <2>5, <2>6, CallsStay
<1>6. ASSUME NEW c \in Click, Press(c) PROVE SelectionInv'
  BY <1>6, PressSelection
<1>7. ASSUME NEW c \in Click, Count(c) PROVE SelectionInv'
  <2>1. Active(c) /\ clicks[c].pc = "count" /\ UNCHANGED <<keys, input, wanted>>
    BY <1>7, CountCases DEF server, page
  <2>2. CASE \E text \in {"full", "already"}, b \in Batch \cup {None} : End(c, text, b)
    <3>1. Others(c) /\ clicks'[c] = None
      BY <1>0, <2>2, EndsCall
    <3> QED BY <2>1, <3>1, QuietSelection
  <2>3. CASE \E n \in 0 .. Len(clicks[c].files) :
                clicks' = [clicks EXCEPT ![c] = Prepared(c, n)]
    <3>1. PICK n \in 0 .. Len(clicks[c].files) :
                  clicks' = [clicks EXCEPT ![c] = Prepared(c, n)]
      BY <2>3
    <3>2. Others(c) /\ clicks'[c] = Prepared(c, n)
      BY <1>0, <3>1 DEF Others, TypeOK
    <3>3. clicks[c].batch = None
      BY <1>0, <2>1, ActiveRun DEF LocalOK
    <3>4. Stays(c)
      BY <1>0, <2>1, <3>2, <3>3, PreparedOK DEF Stays
    <3> QED BY <2>1, <3>2, <3>4, QuietSelection
  <2> QED BY <1>7, <2>2, <2>3, CountCases
<1>8. ASSUME NEW c \in Click, Refuse(c) PROVE SelectionInv'
  <2>1. /\ Active(c) /\ clicks[c].pc = "posted" /\ UNCHANGED <<input, wanted, keys>>
        /\ clicks' = [clicks EXCEPT ![c].pc = "refused"]
    BY <1>8 DEF Refuse, At, Active, Goto, page, server
  <2>2. clicks[c] \in Run
    BY <1>0, <2>1, ActiveRun
  <2>3. Others(c) /\ clicks'[c] = [clicks[c] EXCEPT !.pc = "refused"]
    BY <1>0, <2>1 DEF TypeOK, Others
  <2>4. Stays(c)
    BY <2>1, <2>2, <2>3 DEF Run, Stays
  <2> QED BY <2>1, <2>3, <2>4, QuietSelection
<1>9. ASSUME NEW c \in Click, GivesUp(c) PROVE SelectionInv'
  <2>1. Others(c) /\ clicks'[c] = None /\ UNCHANGED <<input, wanted, keys>>
    BY <1>0, <1>9 DEF GivesUp, End, TypeOK, Others, server
  <2> QED BY <2>1, QuietSelection
<1>10. ASSUME NEW c \in Click, Created(c) PROVE SelectionInv'
  <2> DEFINE r == clicks[c]
  <2>1. Active(c) /\ r.pc = "created" /\ UNCHANGED server
        /\ Continue(c, r.prepared, {}, pending, FALSE)
    BY <1>10 DEF Created, At, Active
  <2>2. LocalOK(r) /\ r.prepared \in Selections
    BY <1>0, <2>1, ActiveRun
  <2>3. Own(r) = {}
    BY <2>1, <2>2 DEF LocalOK, Looping, Own
  <2>4. pending \in SUBSET Item
    BY <1>0 DEF TypeOK
  <2> QED BY <2>1, <2>2, <2>3, <2>4, ContinueSelection
<1>11. ASSUME NEW c \in Click, Read(c) PROVE SelectionInv'
  <2> DEFINE r == clicks[c]
             kept == pending \ {<<r.batch, Head(r.rest)>>}
  <2>1. Active(c) /\ r.pc = "reading" /\ UNCHANGED server
    BY <1>11 DEF Read, At, Active
  <2>2. r \in Run /\ r.accepted \in SUBSET Photo /\ Own(r) = r.accepted
    BY <1>0, <2>1, ActiveRun DEF Own
  <2>3. CASE Head(r.rest) \in Large
    <3>1. Continue(c, Tail(r.rest), r.accepted, kept, FALSE)
      BY <1>11, <2>3 DEF Read
    <3>2. kept \in SUBSET Item /\ Tail(r.rest) \in Selections
      BY <1>0, <2>1, AtPhoto DEF TypeOK, Looping
    <3> HIDE DEF kept
    <3> QED BY <2>1, <2>2, <3>1, <3>2, ContinueSelection
  <2>4. CASE Head(r.rest) \notin Large
    <3>1. UNCHANGED <<input, wanted, keys>>
          /\ clicks' = [clicks EXCEPT ![c].pc = "posted"]
      BY <1>11, <2>1, <2>4 DEF Read, Goto, server
    <3>2. Others(c) /\ clicks'[c] = [r EXCEPT !.pc = "posted"]
      BY <1>0, <3>1, <2>1 DEF TypeOK, Others
    <3>3. Stays(c)
      BY <2>1, <2>2, <3>2 DEF Run, Stays
    <3> QED BY <3>1, <3>2, <3>3, QuietSelection
  <2> QED BY <2>3, <2>4
<1>12. ASSUME NEW c \in Click, Accepted(c) PROVE SelectionInv'
  <2> DEFINE r == clicks[c]
  <2>1. Active(c) /\ r.pc = "accepted" /\ UNCHANGED server
        /\ Continue(c, Tail(r.rest), r.accepted \cup {Head(r.rest)}, pending, FALSE)
    BY <1>12 DEF Accepted, At, Active
  <2>2. r.accepted \in SUBSET Photo /\ Head(r.rest) \in Photo /\ Tail(r.rest) \in Selections
    BY <1>0, <2>1, ActiveRun, AtPhoto DEF Looping
  <2>3. r.accepted \cup {Head(r.rest)} = Own(r)
    BY <2>1 DEF Own
  <2>4. pending \in SUBSET Item
    BY <1>0 DEF TypeOK
  <2> QED BY <2>1, <2>2, <2>3, <2>4, ContinueSelection
<1>13. ASSUME NEW c \in Click, Refused(c) PROVE SelectionInv'
  <2> DEFINE r == clicks[c]
             kept == pending \ {<<r.batch, Head(r.rest)>>}
  <2>1. Active(c) /\ r.pc = "refused" /\ UNCHANGED server
        /\ Continue(c, Tail(r.rest), r.accepted, kept, TRUE)
    BY <1>13 DEF Refused, At, Active
  <2>2. r.accepted \in SUBSET Photo /\ Own(r) = r.accepted /\ Tail(r.rest) \in Selections
    BY <1>0, <2>1, ActiveRun, AtPhoto DEF Own, Looping
  <2>3. kept \in SUBSET Item
    BY <1>0 DEF TypeOK
  <2> HIDE DEF kept
  <2> QED BY <2>1, <2>2, <2>3, ContinueSelection
<1>14. CASE UNCHANGED vars
  BY <1>2, <1>14 DEF vars, page, server
<1> QED
  BY <1>1, <1>3, <1>4, <1>5, <1>6, <1>7, <1>8, <1>9, <1>10, <1>11, <1>12, <1>13, <1>14
  DEF Next, User, Background, AddPhoto, RemovePhoto, EditForm

(* While the user leaves the selection and the form alone, the selection   *)
(* is what the user put together without the photos that were reported as  *)
(* queued, however many runs set it from what it was when they began       *)
(* (app.js 1700-1702): these runs submit the same keys, so one of them is  *)
(* served the first photo of acceptable size and takes photos out, and     *)
(* every other is refused that photo and takes none.                       *)
THEOREM SelectionKeptHolds == Spec => []SelectionKept
<1>1. Init => LocalInv /\ SelectionInv
  <2> SUFFICES ASSUME Init PROVE SelectionInv
    BY InitLocal
  <2> QED BY DEF Init, SelectionInv, SelectionKept, UpToDate, Active
<1>2. (LocalInv /\ SelectionInv) /\ [Next]_vars => (LocalInv /\ SelectionInv)'
  BY LocalStep, SelectionStep
<1>3. LocalInv /\ SelectionInv => SelectionKept
  BY DEF SelectionInv
<1> QED BY <1>1, <1>2, <1>3, PTL DEF Spec
=============================================================================
