--------------------------- MODULE RelayedProofs ---------------------------
(***************************************************************************)
(* Proof that what a publisher sends reaches a player whole, for any number *)
(* of messages: on top of the invariant of SessionProofs, which says what   *)
(* may be on its way to the server.                                         *)
(***************************************************************************)
EXTENDS SessionProofs, WellFoundedInduction

Place(m) == m.means[1].num

\* The messages after the first t that are published are on their way, in order.
Waiting(t) ==
  /\ \A i \in 1..Len(inbox) : IsMedia(inbox[i]) => Place(inbox[i]) > t
  /\ \A i, j \in 1..Len(inbox) :
       i < j /\ IsMedia(inbox[i]) /\ IsMedia(inbox[j]) => Place(inbox[i]) < Place(inbox[j])
  /\ \A n \in (t + 1)..Len(published) :
       \E i \in 1..Len(inbox) : IsMedia(inbox[i]) /\ Place(inbox[i]) = n

Whole(t) == {j \in 1..t : published[j].kind # "cut"}

\* The header that the relay's packets have after t messages.
HeaderAt(t) ==
  \/ header = "none" /\ Whole(t) = {}
  \/ \E j \in Whole(t) :
       /\ \A k \in Whole(t) : k <= j
       /\ header = IF published[j].type = "audio" /\ published[j].kind = "header"
                   THEN "aac" ELSE "other"

\* The player has the first u of t messages.
UpTo(t, u) ==
  /\ u \in 0..t
  /\ \A i \in Ends(t) : u < i
  /\ u = t \/ u + 1 \in Ends(t)

PlayerInv(t) ==
  /\ ~Over => HeaderAt(t) /\ (playing <=> Ends(t) = {})
  /\ \E u \in 0..t : UpTo(t, u) /\ played = [i \in 1..u |-> Shown(i)]

RelayedInv == \E t \in 0..Len(published) : Waiting(t) /\ PlayerInv(t)

-----------------------------------------------------------------------------
(* Least and greatest *)

LEMMA MinIs ==
  ASSUME NEW S \in SUBSET Int, NEW x \in S, \A y \in S : x <= y
  PROVE  Min(S) = x
<1>1. Min(S) \in S /\ \A y \in S : Min(S) <= y
  BY DEF Min
<1>2. PICK m : m = Min(S)
  OBVIOUS
<1>3. m \in Int /\ x \in Int /\ m <= x /\ x <= m
  BY <1>1, <1>2
<1> QED
  BY <1>2, <1>3

LEMMA MaxIs ==
  ASSUME NEW S \in SUBSET Int, NEW x \in S, \A y \in S : y <= x
  PROVE  Max(S) = x
<1>1. Max(S) \in S /\ \A y \in S : Max(S) >= y
  BY DEF Max
<1>2. PICK m : m = Max(S)
  OBVIOUS
<1>3. m \in Int /\ x \in Int /\ m >= x /\ x >= m
  BY <1>1, <1>2
<1> QED
  BY <1>2, <1>3

\* What the invariant says is what the property says.
LEMMA InvImplies == TypeInv /\ InboxInv /\ RelayedInv => RelayedWhole
<1> SUFFICES ASSUME TypeInv, InboxInv, RelayedInv
             PROVE  RelayedWhole
  OBVIOUS
<1>1. PICK t \in 0..Len(published) : Waiting(t) /\ PlayerInv(t)
  BY DEF RelayedInv
<1>2. /\ Len(published) \in Nat /\ DOMAIN published = 1..Len(published)
      /\ DOMAIN inbox = 1..Len(inbox) /\ t \in Nat /\ t <= Len(published)
  <2>1. published \in Seq(Media)
    BY DEF TypeInv
  <2>2. Len(published) \in Nat /\ DOMAIN published = 1..Len(published)
    <3> HIDE DEF Media
    <3> QED
      BY <2>1, LenProperties
  <2>3. DOMAIN inbox = 1..Len(inbox)
    BY DEF TypeInv, IsSeq
  <2> QED
    BY <2>2, <2>3
<1>3. \A i \in 1..Len(inbox) : IsMedia(inbox[i]) => Place(inbox[i]) \in 1..Len(published)
  BY <1>2 DEF InboxInv, MessageOK, MediumOK, Place
<1>4. Taken = t
  <2> DEFINE unread == {inbox[i].means[1].num : i \in {k \in DOMAIN inbox : IsMedia(inbox[k])}}
  <2>1. \A n : n \in unread <=> \E i \in 1..Len(inbox) : IsMedia(inbox[i]) /\ Place(inbox[i]) = n
    BY <1>2 DEF Place
  <2>2. Taken = IF unread = {} THEN Len(published) ELSE Min(unread) - 1
    BY DEF Taken
  <2> HIDE DEF unread
  <2>3. CASE unread = {}
    <3>2. t = Len(published)
      <4> SUFFICES ASSUME t # Len(published)
                   PROVE  FALSE
        OBVIOUS
      <4>1. Len(published) \in (t + 1)..Len(published)
        <5>1. PICK k : k = Len(published)
          OBVIOUS
        <5>2. k \in Nat /\ t \in Nat /\ t <= k /\ t # k
          BY <1>2, <5>1
        <5>3. k \in (t + 1)..k
          BY <5>2
        <5> QED
          BY <5>1, <5>3
      <4> QED
        BY <1>1, <2>1, <2>3, <4>1 DEF Waiting
    <3> QED
      BY <2>2, <2>3, <3>2
  <2>4. CASE unread # {}
    <3>1. unread \in SUBSET Int /\ \A n \in unread : t + 1 <= n /\ n <= Len(published)
      BY <1>1, <1>2, <1>3, <2>1 DEF Waiting
    <3>2. t + 1 \in (t + 1)..Len(published)
      <4>1. PICK n \in unread : TRUE
        BY <2>4
      <4>2. n \in Int /\ t + 1 <= n /\ n <= Len(published)
        BY <3>1
      <4> QED
        BY <1>2, <4>2
    <3>3. t + 1 \in unread
      BY <1>1, <2>1, <3>2 DEF Waiting
    <3>4. Min(unread) = t + 1
      BY <3>1, <3>3, MinIs
    <3>5. (t + 1) - 1 = t
      BY <1>2
    <3> QED
      BY <2>2, <2>4, <3>4, <3>5
  <2> QED
    BY <2>3, <2>4
<1>5. PICK u \in 0..t : UpTo(t, u) /\ played = [i \in 1..u |-> Shown(i)]
  BY <1>1 DEF PlayerInv
<1>6. u = IF Ends(t) = {} THEN t ELSE Min(Ends(t)) - 1
  <2>1. Ends(t) \subseteq 1..t /\ Ends(t) \in SUBSET Int
    BY <1>2 DEF Ends
  <2>2. CASE Ends(t) = {}
    BY <1>5, <2>2 DEF UpTo
  <2>3. CASE Ends(t) # {}
    <3>1. u # t
      BY <1>2, <1>5, <2>1, <2>3 DEF UpTo
    <3>2. u + 1 \in Ends(t) /\ \A i \in Ends(t) : u + 1 <= i
      BY <1>2, <1>5, <2>1, <3>1 DEF UpTo
    <3>3. Min(Ends(t)) = u + 1
      BY <2>1, <3>2, MinIs
    <3> QED
      BY <1>2, <2>3, <3>3
  <2> QED
    BY <2>2, <2>3
<1> QED
  BY <1>4, <1>5, <1>6 DEF RelayedWhole

-----------------------------------------------------------------------------
(* Steps that read no medium *)

LEMMA InitRelayed == Init => RelayedInv
<1> SUFFICES ASSUME Init
             PROVE  RelayedInv
  OBVIOUS
<1>1. /\ Len(published) = 0 /\ Len(inbox) = 0 /\ header = "none" /\ playing = TRUE
      /\ played = << >>
  BY DEF Init
<1>2. Whole(0) = {} /\ Ends(0) = {} /\ 1..0 = {} /\ (0 + 1)..0 = {}
  BY DEF Whole, Ends
<1>3. Waiting(0)
  BY <1>1, <1>2 DEF Waiting
<1>4. UpTo(0, 0)
  BY <1>2 DEF UpTo
<1>5. played = [i \in 1..0 |-> Shown(i)]
  BY <1>1, <1>2
<1>6. PlayerInv(0)
  BY <1>1, <1>2, <1>4, <1>5 DEF PlayerInv, HeaderAt
<1> QED
  BY <1>1, <1>3, <1>6 DEF RelayedInv

LEMMA NoneMissed ==
  ASSUME TypeInv, RelayedInv, UNCHANGED <<published, played>>,
         ~Over' => ~Over /\ UNCHANGED <<playing, header>>,
         \/ inbox' = inbox
         \/ \E m : ~IsMedia(m) /\ inbox' = Append(inbox, m)
         \/ Take /\ ~IsMedia(Head(inbox))
  PROVE  RelayedInv'
<1>1. PICK t \in 0..Len(published) : Waiting(t) /\ PlayerInv(t)
  BY DEF RelayedInv
<1>2. PlayerInv(t)'
  <2>1. /\ Ends(t)' = Ends(t) /\ \A k : Shown(k)' = Shown(k)
        /\ \A u : UpTo(t, u)' <=> UpTo(t, u)
    BY DEF Ends, UpTo, Shown, KindShown
  <2>2. ~Over' => HeaderAt(t)' /\ (playing' <=> Ends(t)' = {})
    BY <1>1, <2>1 DEF PlayerInv, HeaderAt, Whole
  <2>3. \E u \in 0..t : UpTo(t, u)' /\ played' = [i \in 1..u |-> Shown(i)']
    BY <1>1, <2>1 DEF PlayerInv
  <2> QED
    BY <2>2, <2>3 DEF PlayerInv
<1>3. IsSeq(inbox) /\ Len(inbox) \in Nat
  BY DEF TypeInv, IsSeq
<1>4. Waiting(t)'
  <2>1. CASE inbox' = inbox
    BY <1>1, <2>1 DEF Waiting
  <2>2. ASSUME NEW m, ~IsMedia(m), inbox' = Append(inbox, m)
        PROVE  Waiting(t)'
    <3>1. /\ Len(inbox') = Len(inbox) + 1
          /\ \A i \in 1..Len(inbox) : inbox'[i] = inbox[i]
          /\ inbox'[Len(inbox) + 1] = m
      BY <1>3, <2>2, Added
    <3>2. \A i \in 1..Len(inbox') : IsMedia(inbox'[i]) => i \in 1..Len(inbox)
      BY <1>3, <2>2, <3>1
    <3>3. \A i \in 1..Len(inbox) : i \in 1..Len(inbox')
      BY <1>3, <3>1
    <3> QED
      BY <1>1, <3>1, <3>2, <3>3 DEF Waiting
  <2>3. CASE Take /\ ~IsMedia(Head(inbox))
    <3>1. /\ Len(inbox') = Len(inbox) - 1 /\ Head(inbox) = inbox[1]
          /\ \A i \in 1..Len(inbox') : inbox'[i] = inbox[i + 1]
      BY <1>3, <2>3, Rest DEF Take
    <3>2. \A i \in 1..Len(inbox') : i + 1 \in 1..Len(inbox)
      BY <1>3, <3>1
    <3>3. ASSUME NEW n \in (t + 1)..Len(published)
          PROVE  \E i \in 1..Len(inbox') : IsMedia(inbox'[i]) /\ Place(inbox'[i]) = n
      <4>1. PICK i \in 1..Len(inbox) : IsMedia(inbox[i]) /\ Place(inbox[i]) = n
        BY <1>1 DEF Waiting
      <4>2. i # 1
        BY <2>3, <3>1, <4>1
      <4>3. i - 1 \in 1..Len(inbox') /\ (i - 1) + 1 = i
        BY <1>3, <3>1, <4>1, <4>2
      <4>4. inbox'[i - 1] = inbox[i]
        BY <3>1, <4>3
      <4> QED
        BY <4>1, <4>3, <4>4
    <3>4. \A i \in 1..Len(inbox') : IsMedia(inbox'[i]) => Place(inbox'[i]) > t
      BY <1>1, <3>1, <3>2 DEF Waiting
    <3>5. \A i, j \in 1..Len(inbox') :
            i < j /\ IsMedia(inbox'[i]) /\ IsMedia(inbox'[j]) =>
              Place(inbox'[i]) < Place(inbox'[j])
      <4> TAKE i, j \in 1..Len(inbox')
      <4>1. i < j => i + 1 < j + 1
        BY <1>3, <3>1
      <4> QED
        BY <1>1, <3>1, <3>2, <4>1 DEF Waiting
    <3> QED
      BY <3>3, <3>4, <3>5 DEF Waiting
  <2> QED
    BY <2>1, <2>2, <2>3
<1> QED
  BY <1>1, <1>2, <1>4 DEF RelayedInv

-----------------------------------------------------------------------------
(* What is published *)

LEMMA TwoItems ==
  ASSUME NEW a, NEW b
  PROVE  LET w == Byte(a) \o Byte(b) IN Len(w) = 2 /\ w[1].byte = a /\ w[2].byte = b
<1> DEFINE S == {Byte(a)[1], Byte(b)[1]}
           w == Byte(a) \o Byte(b)
<1>1. /\ Byte(a) \in Seq(S) /\ Byte(b) \in Seq(S) /\ Len(Byte(a)) = 1 /\ Len(Byte(b)) = 1
      /\ Byte(a)[1].byte = a /\ Byte(b)[1].byte = b
  BY DEF Byte
<1> HIDE DEF S
<1>2. Len(w) = 2 /\ w[1] = Byte(a)[1] /\ w[2] = Byte(b)[1]
  BY <1>1, ConcatProperties
<1> HIDE DEF w
<1>3. w[1].byte = a /\ w[2].byte = b
  BY <1>1, <1>2
<1> QED
  BY <1>2, <1>3 DEF w

LEMMA OneMoreItem ==
  ASSUME NEW S, NEW s \in Seq(S), NEW x \in Seq(S), Len(x) = 1, Len(s) >= 2
  PROVE  /\ s \o x \in Seq(S) /\ Len(s \o x) = Len(s) + 1
         /\ (s \o x)[1] = s[1] /\ (s \o x)[2] = s[2]
<1>1. s \o x \in Seq(S) /\ Len(s \o x) = Len(s) + 1
  BY ConcatProperties
<1>2. Len(s) \in Nat /\ 1 \in 1..Len(s) + Len(x) /\ 2 \in 1..Len(s) + Len(x)
  BY LenProperties
<1>3. (s \o x)[1] = s[1] /\ (s \o x)[2] = s[2]
  BY <1>2, ConcatProperties
<1> QED
  BY <1>1, <1>3

LEMMA VideoItems ==
  ASSUME NEW frame, NEW b, NEW w, w = Video(frame, b)
  PROVE  Len(w) = 5 /\ w # << >> /\ w[1].byte = (16 * frame) + 7 /\ w[2].byte = b
<1>a. PICK a : a = (16 * frame) + 7
  OBVIOUS
<1>c. PICK c, d, e : c = 0 /\ d = 0 /\ e = 0
  OBVIOUS
<1>1. PICK S : S = {Byte(a)[1], Byte(b)[1], Byte(c)[1], Byte(d)[1], Byte(e)[1]}
  OBVIOUS
<1>2. /\ Byte(a) \in Seq(S) /\ Byte(b) \in Seq(S) /\ Byte(c) \in Seq(S) /\ Byte(d) \in Seq(S)
      /\ Byte(e) \in Seq(S)
      /\ Len(Byte(a)) = 1 /\ Len(Byte(b)) = 1 /\ Len(Byte(c)) = 1 /\ Len(Byte(d)) = 1
      /\ Len(Byte(e)) = 1
  BY <1>1 DEF Byte
<1>3. PICK w2 : w2 = Byte(a) \o Byte(b)
  OBVIOUS
<1>4. PICK w3 : w3 = w2 \o Byte(c)
  OBVIOUS
<1>5. PICK w4 : w4 = w3 \o Byte(d)
  OBVIOUS
<1>6. w = w4 \o Byte(e)
  <2>1. w = Byte((16 * frame) + 7) \o Byte(b) \o Byte(0) \o Byte(0) \o Byte(0)
    BY DEF Video
  <2> QED
    BY <1>a, <1>c, <1>3, <1>4, <1>5, <2>1
<1>7. w2 \in Seq(S) /\ Len(w2) = 2 /\ Len(w2) >= 2 /\ w2[1].byte = a /\ w2[2].byte = b
  <2>1. Byte(a) \o Byte(b) \in Seq(S)
    BY <1>2, ConcatProperties, Zenon
  <2>2. w2 \in Seq(S)
    BY <1>3, <2>1, Zenon
  <2>3. Len(w2) = 2 /\ w2[1].byte = a /\ w2[2].byte = b
    BY <1>3, TwoItems
  <2> QED
    BY <2>2, <2>3
<1>8. /\ w3 \in Seq(S) /\ Len(w3) = 3 /\ Len(w3) >= 2
      /\ w3[1] = w2[1] /\ w3[2] = w2[2]
  <2>1. /\ w2 \o Byte(c) \in Seq(S) /\ Len(w2 \o Byte(c)) = Len(w2) + 1
        /\ (w2 \o Byte(c))[1] = w2[1] /\ (w2 \o Byte(c))[2] = w2[2]
    BY <1>2, <1>7, OneMoreItem, Zenon
  <2>2. w3 \in Seq(S) /\ Len(w3) = Len(w2) + 1 /\ w3[1] = w2[1] /\ w3[2] = w2[2]
    BY <1>4, <2>1, Zenon
  <2> QED
    BY <1>7, <2>2
<1>9. /\ w4 \in Seq(S) /\ Len(w4) = 4 /\ Len(w4) >= 2
      /\ w4[1] = w3[1] /\ w4[2] = w3[2]
  <2>1. /\ w3 \o Byte(d) \in Seq(S) /\ Len(w3 \o Byte(d)) = Len(w3) + 1
        /\ (w3 \o Byte(d))[1] = w3[1] /\ (w3 \o Byte(d))[2] = w3[2]
    BY <1>2, <1>8, OneMoreItem, Zenon
  <2>2. w4 \in Seq(S) /\ Len(w4) = Len(w3) + 1 /\ w4[1] = w3[1] /\ w4[2] = w3[2]
    BY <1>5, <2>1, Zenon
  <2> QED
    BY <1>8, <2>2
<1>10. /\ w \in Seq(S) /\ Len(w) = 5 /\ Len(w) >= 2
      /\ w[1] = w4[1] /\ w[2] = w4[2]
  <2>1. /\ w4 \o Byte(e) \in Seq(S) /\ Len(w4 \o Byte(e)) = Len(w4) + 1
        /\ (w4 \o Byte(e))[1] = w4[1] /\ (w4 \o Byte(e))[2] = w4[2]
    BY <1>2, <1>9, OneMoreItem, Zenon
  <2>2. w \in Seq(S) /\ Len(w) = Len(w4) + 1 /\ w[1] = w4[1] /\ w[2] = w4[2]
    BY <1>6, <2>1, Zenon
  <2> QED
    BY <1>9, <2>2
<1>11. w # << >>
  <2>1. Len(<< >>) = 0 /\ Len(w) # 0
    BY <1>10
  <2> QED
    BY <2>1, Zenon
<1> QED
  BY <1>a, <1>7, <1>8, <1>9, <1>10, <1>11

\* The kind of a video by its first two bytes.
LEMMA KindOfVideo ==
  ASSUME NEW w, Len(w) = 5, NEW frame \in 1..2, NEW packet,
         w[1].byte = (16 * frame) + 7, w[2].byte = packet
  PROVE  VideoKind(w) = IF frame # 1 THEN "frame" ELSE IF packet = 0 THEN "header" ELSE "key"
<1>1. At0(w, 1) \div 16 = frame /\ At0(w, 2) = packet
  <2>1. At0(w, 1) = (16 * frame) + 7 /\ At0(w, 2) = packet
    BY DEF At0
  <2>2. ((16 * frame) + 7) \div 16 = frame
    BY Z3
  <2> QED
    BY <2>1, <2>2
<1>2. Len(w) >= 5 /\ ~(Len(w) < 5)
  OBVIOUS
<1>3. VideoKind(w) = CASE Len(w) < 5 -> ""
                       [] Len(w) >= 5 /\ frame = 1 /\ packet = 0 -> "header"
                       [] Len(w) >= 5 /\ frame = 1 /\ packet # 0 -> "key"
                       [] Len(w) >= 5 /\ frame # 1 -> "frame"
  BY <1>1 DEF VideoKind
<1> QED
  BY <1>2, <1>3

LEMMA KindOfAudio ==
  ASSUME NEW packet
  PROVE  AudioKind(Audio(packet)) = IF packet = 0 THEN "header" ELSE "audio"
<1> DEFINE w == Audio(packet)
<1>1. Len(w) = 2 /\ w[1].byte = (16 * 10) + 15 /\ w[2].byte = packet
  BY TwoItems DEF Audio
<1> HIDE DEF w
<1>2. w # << >> /\ At0(w, 1) = 175 /\ At0(w, 2) = packet /\ 175 \div 16 = 10 /\ Len(w) # 1
  BY <1>1 DEF At0
<1>3. AudioKind(w) = IF packet = 0 THEN "header" ELSE "audio"
  BY <1>2 DEF AudioKind
<1> QED
  BY <1>3 DEF w

\* What the server makes of it.
Fits(x, m) ==
  /\ IsMedia(m)
  /\ DemuxH(m) = "" <=> x.body = << >>
  /\ x.body # << >> => /\ DemuxH(m) = "panic" <=> x.kind = "cut"
                       /\ x.kind # "cut" => DemuxH(m) = x.kind
  /\ x.type = "data0" => Reform(m.wire, "DEL").e = "" /\ Reform(m.wire, "DEL").w = x.body
  /\ x.type = "data3" => Reform(m.wire, "DEL").e # ""
  /\ x.type \in {"video", "audio"} /\ x.body # << >> => m.wire = x.body

LEMMA Fitting ==
  ASSUME NEW x \in Media, NEW m, m.type = x.type, m.wire = x.wire
  PROVE  Fits(x, m) /\ x.type \in {"video", "audio", "data0", "data3"}
<1> DEFINE framed == Reform(MetaData, "ADD").w
<1>1. ASSUME NEW frame \in 1..2, NEW packet \in 0..1, NEW kind,
             x = Medium("video", Video(frame, packet), kind, Video(frame, packet)),
             kind = IF frame # 1 THEN "frame" ELSE IF packet = 0 THEN "header" ELSE "key"
      PROVE  Fits(x, m)
  <2>0. PICK w : w = Video(frame, packet)
    OBVIOUS
  <2>1. /\ Len(w) = 5 /\ w # << >>
        /\ w[1].byte = (16 * frame) + 7
        /\ w[2].byte = packet
    BY <2>0, VideoItems
  <2>2. VideoKind(w) = kind
    BY <1>1, <2>1, KindOfVideo
  <2>4. x.type = "video" /\ x.wire = w /\ x.body = w /\ x.kind = kind
    BY <1>1, <2>0 DEF Medium
  <2>5. kind \in {"frame", "header", "key"}
    BY <1>1
  <2> QED
    BY <2>1, <2>2, <2>4, <2>5 DEF Fits, IsMedia, DemuxH
<1>2. ASSUME NEW packet \in 0..1, NEW kind,
             x = Medium("audio", Audio(packet), kind, Audio(packet)),
             kind = IF packet = 0 THEN "header" ELSE "audio"
      PROVE  Fits(x, m)
  <2>1. AudioKind(Audio(packet)) = kind
    BY <1>2, KindOfAudio
  <2>2. Audio(packet) # << >>
    BY TwoBytes DEF Audio
  <2>3. x.type = "audio" /\ x.wire = Audio(packet) /\ x.body = Audio(packet) /\ x.kind = kind
    BY <1>2 DEF Medium
  <2>4. kind \in {"header", "audio"}
    BY <1>2
  <2> QED
    BY <2>1, <2>2, <2>3, <2>4 DEF Fits, IsMedia, DemuxH
<1>3. CASE x = Medium("audio", Byte((16 * 10) + 15), "cut", Byte((16 * 10) + 15))
  <2> DEFINE w == Byte((16 * 10) + 15)
  <2>1. Len(w) = 1 /\ w # << >> /\ w[1].byte = 175
    BY DEF Byte
  <2>2. x.type = "audio" /\ x.wire = w /\ x.body = w /\ x.kind = "cut"
    BY <1>3 DEF Medium
  <2> HIDE DEF w
  <2>3. At0(w, 1) = 175 /\ 175 \div 16 = 10
    BY <2>1 DEF At0
  <2>4. AudioKind(w) = "panic"
    BY <2>1, <2>3 DEF AudioKind
  <2> QED
    BY <2>1, <2>2, <2>4 DEF Fits, IsMedia, DemuxH
<1>4. ASSUME NEW w \in {framed, MetaData}, x = Medium("data0", w, "header", MetaData)
      PROVE  Fits(x, m)
  <2>1. /\ w # << >> /\ MetaData # << >>
        /\ Reform(w, "DEL").e = "" /\ Reform(w, "DEL").w = MetaData
    BY ReformAssumption
  <2>2. x.type = "data0" /\ x.wire = w /\ x.body = MetaData /\ x.kind = "header"
    BY <1>4 DEF Medium
  <2> QED
    BY <2>1, <2>2 DEF Fits, IsMedia, DemuxH
<1>5. CASE x = Medium("data3", Byte(0) \o framed, "header", MetaData)
  <2> DEFINE w == Byte(0) \o framed
  <2>1. w # << >> /\ MetaData # << >> /\ Reform(w, "DEL").e # ""
    BY ReformAssumption
  <2>2. x.type = "data3" /\ x.wire = w /\ x.body = MetaData /\ x.kind = "header"
    BY <1>5 DEF Medium
  <2> HIDE DEF w
  <2> QED
    BY <2>1, <2>2 DEF Fits, IsMedia, DemuxH
<1>6. CASE x = Medium("video", Byte((16 * 5) + 7) \o Byte(0), "frame", << >>)
  <2> DEFINE w == Byte((16 * 5) + 7) \o Byte(0)
  <2>1. Len(w) = 2
    BY TwoItems
  <2>2. x.type = "video" /\ x.wire = w /\ x.body = << >> /\ x.kind = "frame"
    BY <1>6 DEF Medium
  <2> HIDE DEF w
  <2> DEFINE frameType == At0(w, 1) \div 16
             packetType == IF frameType \in {1, 2} THEN At0(w, 2) ELSE 0
  <2>3. VideoKind(w) = CASE Len(w) < 5 -> ""
                         [] Len(w) >= 5 /\ frameType = 1 /\ packetType = 0 -> "header"
                         [] Len(w) >= 5 /\ frameType = 1 /\ packetType # 0 -> "key"
                         [] Len(w) >= 5 /\ frameType # 1 -> "frame"
    BY DEF VideoKind
  <2>4. Len(w) < 5 /\ ~(Len(w) >= 5)
    BY <2>1
  <2> HIDE DEF frameType, packetType
  <2>5. VideoKind(w) = ""
    BY <2>3, <2>4
  <2> QED
    BY <2>2, <2>5 DEF Fits, IsMedia, DemuxH
<1>7. \/ x = Medium("video", Video(1, 0), "header", Video(1, 0))
      \/ x = Medium("video", Video(1, 1), "key", Video(1, 1))
      \/ x = Medium("video", Video(2, 1), "frame", Video(2, 1))
      \/ x = Medium("audio", Audio(0), "header", Audio(0))
      \/ x = Medium("audio", Audio(1), "audio", Audio(1))
      \/ x = Medium("audio", Byte((16 * 10) + 15), "cut", Byte((16 * 10) + 15))
      \/ x = Medium("data0", framed, "header", MetaData)
      \/ x = Medium("data0", MetaData, "header", MetaData)
      \/ x = Medium("data3", Byte(0) \o framed, "header", MetaData)
      \/ x = Medium("video", Byte((16 * 5) + 7) \o Byte(0), "frame", << >>)
  BY DEF Media
<1> HIDE DEF framed, Media
<1>8. Fits(x, m)
  BY <1>1, <1>2, <1>3, <1>4, <1>5, <1>6, <1>7
<1>9. x.type \in {"video", "audio", "data0", "data3"}
  BY MediaTypes
<1> QED
  BY <1>8, <1>9

-----------------------------------------------------------------------------
(* What is shown of the next message *)

LEMMA Greatest ==
  ASSUME NEW n \in Nat, NEW T, T \subseteq 1..n, T # {}
  PROVE  \E x \in T : \A y \in T : y <= x
<1> DEFINE Rel == OpToRel(<, Nat)
           U == {n - x : x \in T}
<1>1. IsWellFoundedOn(Rel, Nat)
  BY NatLessThanWellFounded
<1>2. U \subseteq Nat /\ U # {}
  <2>1. \A x \in T : x \in Int /\ x <= n
    OBVIOUS
  <2>2. \A x \in T : n - x \in Nat
    BY <2>1
  <2>3. U \subseteq Nat
    BY <2>2
  <2>4. U # {}
    OBVIOUS
  <2> QED
    BY <2>3, <2>4
<1> HIDE DEF Rel, U
<1>3. PICK k \in U : \A l \in U : ~(<<l, k>> \in Rel)
  BY <1>1, <1>2, WFMin
<1>4. PICK x \in T : k = n - x
  BY DEF U
<1>5. ASSUME NEW y \in T
      PROVE  y <= x
  <2>1. x \in 1..n /\ y \in 1..n
    OBVIOUS
  <2>2. n - y \in U /\ n - y \in Nat /\ k \in Nat
    BY <1>2, <2>1 DEF U
  <2>3. ~(n - y < k)
    BY <1>3, <2>2 DEF Rel, OpToRel
  <2> QED
    BY <1>4, <2>1, <2>2, <2>3
<1> QED
  BY <1>5

LEMMA MediaKinds ==
  \A x \in Media : x.type = "audio" => x.kind \in {"header", "audio", "cut"}
  BY DEF Media, Medium

\* The kind of the next message, and the header that the relay has after it.
LEMMA NextKind ==
  ASSUME NEW t \in Nat, published[t + 1] \in Media, NEW m, Fits(published[t + 1], m),
         m.type = published[t + 1].type, published[t + 1].body # << >>,
         HeaderAt(t), \A j \in 1..t : published[j] \in Media
  PROVE  /\ Kind(m) = KindShown(t + 1)
         /\ header' = HeaderAfter(m) /\ published' = published => HeaderAt(t + 1)'
<1> DEFINE x == published[t + 1]
<1>1. Whole(t + 1) = Whole(t) \union (IF x.kind = "cut" THEN {} ELSE {t + 1})
  BY DEF Whole
<1>2. /\ Whole(t) \subseteq 1..t /\ t + 1 \in Nat /\ t + 1 \in 1..(t + 1)
      /\ \A k \in Whole(t) : k <= t + 1 /\ k \in Int
  BY DEF Whole
<1>3. Whole(t + 1) = {j \in 1..(t + 1) : published[j].kind # "cut"}
  BY DEF Whole
<1>4. published' = published => Whole(t + 1)' = Whole(t + 1) /\ x' = x
  BY DEF Whole
<1>5. CASE x.kind # "cut"
  <2>1. DemuxH(m) = x.kind /\ DemuxH(m) # "panic"
    BY <1>5 DEF Fits
  <2>2. Kind(m) = x.kind /\ KindShown(t + 1) = x.kind
    BY <1>5, <2>1 DEF Kind, KindShown
  <2>3. HeaderAfter(m) = IF x.type = "audio" /\ x.kind = "header" THEN "aac" ELSE "other"
    BY <2>1 DEF HeaderAfter
  <2>4. t + 1 \in Whole(t + 1) /\ \A k \in Whole(t + 1) : k <= t + 1
    BY <1>1, <1>2, <1>5
  <2>5. ASSUME header' = HeaderAfter(m), published' = published
        PROVE  HeaderAt(t + 1)'
    BY <1>4, <2>3, <2>4, <2>5 DEF HeaderAt
  <2> QED
    BY <2>2, <2>5
<1>6. CASE x.kind = "cut"
  <2>1. DemuxH(m) = "panic" /\ HeaderAfter(m) = header /\ Whole(t + 1) = Whole(t)
    BY <1>1, <1>6 DEF Fits, HeaderAfter
  <2>2. Kind(m) = CASE header = "none" -> "none" [] header = "aac" -> "header"
                    [] header = "other" -> "audio"
    BY <2>1 DEF Kind
  <2>3. KindShown(t + 1) = IF Whole(t) = {} THEN "none"
                           ELSE IF published[Max(Whole(t))].type = "audio"
                                THEN published[Max(Whole(t))].kind ELSE "audio"
    BY <1>3, <1>6, <2>1 DEF KindShown
  <2>4. Kind(m) = KindShown(t + 1)
    <3>1. CASE header = "none" /\ Whole(t) = {}
      BY <2>2, <2>3, <3>1
    <3>2. ASSUME NEW j \in Whole(t), \A k \in Whole(t) : k <= j,
                 header = IF published[j].type = "audio" /\ published[j].kind = "header"
                          THEN "aac" ELSE "other"
          PROVE  Kind(m) = KindShown(t + 1)
      <4>1. Whole(t) \in SUBSET Int /\ Whole(t) # {}
        BY <1>2
      <4>2. Max(Whole(t)) = j
        BY <3>2, <4>1, MaxIs
      <4>3. published[j] \in Media /\ published[j].kind # "cut"
        BY DEF Whole
      <4>4. published[j].type = "audio" => published[j].kind \in {"header", "audio"}
        BY <4>3, MediaKinds
      <4>5. KindShown(t + 1) = IF published[j].type = "audio" THEN published[j].kind ELSE "audio"
        BY <2>3, <4>1, <4>2
      <4>6. CASE published[j].type = "audio" /\ published[j].kind = "header"
        BY <2>2, <3>2, <4>5, <4>6
      <4>7. CASE ~(published[j].type = "audio" /\ published[j].kind = "header")
        <5>1. header = "other"
          BY <3>2, <4>7
        <5>2. Kind(m) = "audio"
          BY <2>2, <5>1
        <5> QED
          BY <4>4, <4>5, <4>7, <5>2
      <4> QED
        BY <4>6, <4>7
    <3> QED
      BY <3>1, <3>2 DEF HeaderAt
  <2>5. ASSUME header' = HeaderAfter(m), published' = published
        PROVE  HeaderAt(t + 1)'
    <3>1. header' = header /\ Whole(t + 1)' = Whole(t)
      BY <1>4, <2>1, <2>5
    <3> QED
      BY <2>5, <3>1 DEF HeaderAt
  <2> QED
    BY <2>4, <2>5
<1> QED
  BY <1>5, <1>6

-----------------------------------------------------------------------------
(* The server reads a message of the publisher *)

LEMMA Appended ==
  ASSUME NEW t \in Nat, NEW g, g = [i \in 1..(t + 1) |-> g[i]],
         NEW s, s = [i \in 1..t |-> g[i]]
  PROVE  Append(s, g[t + 1]) = g
<1>1. PICK S : \A i \in 1..t : g[i] \in S
  <2>1. \A i \in 1..t : g[i] \in {g[j] : j \in 1..t}
    OBVIOUS
  <2> QED
    BY <2>1
<1>2. IsSeq(s) /\ Len(s) = t
  <2>1. s \in [1..t -> S]
    BY <1>1
  <2>2. s \in Seq(S)
    BY <2>1, SeqDef
  <2>3. Len(s) = t
    BY <2>1
  <2> QED
    BY <2>2, <2>3, SeqIs
<1>3. PICK r : r = Append(s, g[t + 1])
  OBVIOUS
<1>4. /\ r = [i \in 1..Len(r) |-> r[i]] /\ Len(r) = t + 1
      /\ \A i \in 1..t : r[i] = s[i]
      /\ r[t + 1] = g[t + 1]
  BY <1>2, <1>3, Added DEF IsSeq
<1>5. \A i \in 1..(t + 1) : r[i] = g[i]
  <2> TAKE i \in 1..(t + 1)
  <2>1. i = t + 1 \/ i \in 1..t
    OBVIOUS
  <2> QED
    BY <1>4, <2>1
<1>6. r = [i \in 1..(t + 1) |-> r[i]]
  BY <1>4
<1>7. r = g
  BY <1>5, <1>6
<1> QED
  BY <1>3, <1>7

\* It is the next one.
LEMMA ReadsNext ==
  ASSUME TypeInv, InboxInv, Take, IsMedia(Head(inbox)), published' = published,
         NEW t \in 0..Len(published), Waiting(t)
  PROVE  /\ t + 1 \in 1..Len(published) /\ Place(Head(inbox)) = t + 1
         /\ Waiting(t + 1)'
<1>1. PICK N : N = Len(published) /\ N \in Nat /\ DOMAIN published = 1..N
  <2>1. published \in Seq(Media)
    BY DEF TypeInv
  <2> HIDE DEF Media
  <2> QED
    BY <2>1, LenProperties
<1>2. IsSeq(inbox) /\ Len(inbox) \in Nat
  BY DEF TypeInv, IsSeq
<1>3. /\ Len(inbox') = Len(inbox) - 1 /\ Head(inbox) = inbox[1] /\ Len(inbox) \in Nat \ {0}
      /\ \A i \in 1..Len(inbox') : inbox'[i] = inbox[i + 1]
  BY <1>2, Rest DEF Take
<1>4. 1 \in 1..Len(inbox) /\ IsMedia(inbox[1])
  BY <1>3
<1>5. \A i \in 1..Len(inbox) : IsMedia(inbox[i]) => Place(inbox[i]) \in 1..N
  BY <1>1 DEF InboxInv, MessageOK, MediumOK, Place
<1>6. Place(inbox[1]) \in 1..N /\ Place(inbox[1]) > t /\ t \in Nat
  BY <1>1, <1>4, <1>5 DEF Waiting
<1>7. t + 1 \in (t + 1)..N /\ t + 1 \in 1..N
  BY <1>1, <1>6
<1>8. PICK k \in 1..Len(inbox) : IsMedia(inbox[k]) /\ Place(inbox[k]) = t + 1
  BY <1>1, <1>7 DEF Waiting
<1>9. k = 1
  <2> SUFFICES ASSUME k # 1
               PROVE  FALSE
    OBVIOUS
  <2>1. 1 < k
    BY <1>3
  <2>2. Place(inbox[1]) < Place(inbox[k])
    BY <1>4, <1>8, <2>1 DEF Waiting
  <2> QED
    BY <1>6, <1>8, <2>2
<1>10. Place(inbox[1]) = t + 1
  BY <1>8, <1>9
<1>11. \A i \in 1..Len(inbox') : i + 1 \in 1..Len(inbox) /\ 1 < i + 1
  BY <1>3
<1>12. \A i \in 1..Len(inbox') : IsMedia(inbox'[i]) => Place(inbox'[i]) > t + 1
  <2> TAKE i \in 1..Len(inbox')
  <2>1. i + 1 \in 1..Len(inbox) /\ 1 < i + 1 /\ inbox'[i] = inbox[i + 1]
    BY <1>3, <1>11
  <2>2. IsMedia(inbox[i + 1]) => Place(inbox[1]) < Place(inbox[i + 1])
    BY <1>4, <2>1 DEF Waiting
  <2>3. IsMedia(inbox[i + 1]) => Place(inbox[i + 1]) \in Int
    BY <1>5, <2>1
  <2> QED
    BY <1>6, <1>10, <2>1, <2>2, <2>3
<1>13. \A i, j \in 1..Len(inbox') :
         i < j /\ IsMedia(inbox'[i]) /\ IsMedia(inbox'[j]) =>
           Place(inbox'[i]) < Place(inbox'[j])
  <2> TAKE i, j \in 1..Len(inbox')
  <2>1. i < j => i + 1 < j + 1
    BY <1>3
  <2> QED
    BY <1>3, <1>11, <2>1 DEF Waiting
<1>14. ASSUME NEW n \in ((t + 1) + 1)..N
       PROVE  \E i \in 1..Len(inbox') : IsMedia(inbox'[i]) /\ Place(inbox'[i]) = n
  <2>1. n \in (t + 1)..N /\ n # t + 1
    BY <1>1, <1>6
  <2>2. PICK i \in 1..Len(inbox) : IsMedia(inbox[i]) /\ Place(inbox[i]) = n
    BY <1>1, <2>1 DEF Waiting
  <2>3. i # 1
    BY <1>10, <2>1, <2>2
  <2>4. i - 1 \in 1..Len(inbox') /\ (i - 1) + 1 = i
    BY <1>3, <2>3
  <2>5. inbox'[i - 1] = inbox[i]
    BY <1>3, <2>4
  <2> QED
    BY <2>2, <2>4, <2>5
<1>15. Waiting(t + 1)'
  BY <1>1, <1>12, <1>13, <1>14 DEF Waiting
<1> QED
  BY <1>1, <1>3, <1>7, <1>10, <1>15

\* What ends a player or the publisher, with one message more.
LEMMA NextEnd ==
  ASSUME NEW t \in Nat
  PROVE  Ends(t + 1) = Ends(t) \union
           IF published[t + 1].type = "data3" \/ published[t + 1].body = << >>
           THEN {t + 1} ELSE {}
  BY DEF Ends

LEMMA StaysUpTo ==
  ASSUME NEW t \in Nat, NEW u, UpTo(t, u), u # t \/ t + 1 \in Ends(t + 1)
  PROVE  UpTo(t + 1, u)
<1>1. u \in 0..t /\ u \in 0..(t + 1) /\ u \in Int
  BY DEF UpTo
<1>2. \A i \in Ends(t + 1) : i \in Ends(t) \/ i = t + 1
  BY NextEnd
<1>3. \A i \in Ends(t + 1) : u < i
  BY <1>1, <1>2 DEF UpTo
<1>4. u + 1 \in Ends(t + 1)
  BY NextEnd DEF UpTo
<1> QED
  BY <1>1, <1>3, <1>4 DEF UpTo

LEMMA ReadsMedium ==
  ASSUME TypeInv, InboxInv, RelayedInv, ReadPacket, IsMedia(Head(inbox))
  PROVE  RelayedInv'
<1>1. PICK t \in 0..Len(published) : Waiting(t) /\ PlayerInv(t)
  BY DEF RelayedInv
<1>2. PICK m : m = Head(inbox) /\ IsMedia(m)
  OBVIOUS
<1>3. /\ phase = "publishing" /\ Take /\ published' = published
      /\ IF DemuxH(m) = "" THEN phase' = "stopped" /\ UNCHANGED <<played, header>>
         ELSE WriteToPlayer(Packet(m)) /\ header' = HeaderAfter(m) /\ phase' = phase
  BY <1>2 DEF ReadPacket, Lost, client, player
<1>4. published \in Seq(Media) /\ Len(published) \in Nat /\ t \in Nat
  <2>1. published \in Seq(Media)
    BY DEF TypeInv
  <2>2. Len(published) \in Nat
    <3> HIDE DEF Media
    <3> QED
      BY <2>1, LenProperties
  <2> QED
    BY <2>1, <2>2
<1>5. t + 1 \in 1..Len(published) /\ Place(m) = t + 1 /\ Waiting(t + 1)'
  BY <1>1, <1>2, <1>3, ReadsNext
<1>6. PICK x : x = published[t + 1]
  OBVIOUS
<1>7. x \in Media /\ (\A j \in 1..t : published[j] \in Media)
  <2>1. \A j \in 1..Len(published) : published[j] \in Media
    <3> HIDE DEF Media
    <3> QED
      BY <1>4
  <2>2. \A j \in 1..t : j \in 1..Len(published)
    BY <1>1, <1>4
  <2> HIDE DEF Media
  <2> QED
    BY <1>5, <1>6, <2>1, <2>2
<1>8. m.type = x.type /\ m.wire = x.wire
  <2>1. inbox # << >> /\ IsSeq(inbox)
    BY <1>3 DEF Take, TypeInv
  <2>2. m = inbox[1] /\ 1 \in 1..Len(inbox)
    BY <1>2, <2>1, Rest
  <2>3. MediumOK(m)
    BY <1>2, <2>2 DEF InboxInv, MessageOK
  <2> QED
    BY <1>5, <1>6, <2>3 DEF MediumOK, Place
<1>9. Fits(x, m) /\ x.type \in {"video", "audio", "data0", "data3"}
  <2> HIDE DEF Media
  <2> QED
    BY <1>7, <1>8, Fitting
<1>10. HeaderAt(t) /\ (playing <=> Ends(t) = {})
  BY <1>1, <1>3 DEF PlayerInv, Over
<1>11. PICK u \in 0..t : UpTo(t, u) /\ played = [k \in 1..u |-> Shown(k)]
  BY <1>1 DEF PlayerInv
<1>12. /\ \A k : Shown(k)' = Shown(k)
       /\ Ends(t + 1)' = Ends(t + 1) /\ \A v : UpTo(t + 1, v)' <=> UpTo(t + 1, v)
  BY <1>3 DEF Shown, KindShown, Ends, UpTo
<1>13. ASSUME NEW v \in 0..(t + 1), UpTo(t + 1, v), played' = [k \in 1..v |-> Shown(k)],
              ~Over' => HeaderAt(t + 1)' /\ (playing' <=> Ends(t + 1) = {})
       PROVE  RelayedInv'
  <2>1. played' = [k \in 1..v |-> Shown(k)']
    BY <1>12, <1>13
  <2>2. PlayerInv(t + 1)'
    BY <1>12, <1>13, <2>1 DEF PlayerInv
  <2>3. t + 1 \in 0..Len(published')
    <3>1. PICK L : L = Len(published)
      OBVIOUS
    <3>2. t + 1 \in 0..L
      BY <1>4, <1>5, <3>1
    <3> QED
      BY <1>3, <3>1, <3>2
  <2> QED
    BY <1>5, <2>2, <2>3 DEF RelayedInv
<1>14. u \in 0..(t + 1) /\ t + 1 \in 0..(t + 1)
  BY <1>4
<1>15. CASE x.body = << >>
  <2>1. DemuxH(m) = ""
    BY <1>9, <1>15 DEF Fits
  <2>2. Over' /\ played' = played
    BY <1>3, <2>1 DEF Over
  <2>3. t + 1 \in Ends(t + 1)
    BY <1>4, <1>6, <1>15, NextEnd
  <2>4. UpTo(t + 1, u)
    BY <1>4, <1>11, <2>3, StaysUpTo
  <2> QED
    BY <1>11, <1>13, <1>14, <2>2, <2>4
<1>16. CASE x.body # << >>
  <2>1. DemuxH(m) # ""
    BY <1>9, <1>16 DEF Fits
  <2>2. WriteToPlayer(Packet(m)) /\ header' = HeaderAfter(m)
    BY <1>3, <2>1
  <2>3. Kind(m) = KindShown(t + 1) /\ HeaderAt(t + 1)'
    <3> HIDE DEF Media
    <3> QED
      BY <1>3, <1>4, <1>6, <1>7, <1>8, <1>9, <1>10, <1>16, <2>2, NextKind
  <2>4. CASE ~playing
    <3>1. UNCHANGED <<playing, played>> /\ playing' = playing
      BY <2>2, <2>4 DEF WriteToPlayer
    <3>2. Ends(t) # {} /\ Ends(t + 1) # {}
      BY <1>4, <1>10, <2>4, NextEnd
    <3>3. u # t
      <4>1. PICK k \in Ends(t) : k \in 1..t
        BY <3>2 DEF Ends
      <4>2. u < k
        BY <1>11 DEF UpTo
      <4> QED
        BY <1>4, <4>1, <4>2
    <3>4. UpTo(t + 1, u)
      BY <1>4, <1>11, <3>3, StaysUpTo
    <3> QED
      BY <1>11, <1>13, <1>14, <2>3, <2>4, <3>1, <3>2, <3>4
  <2>5. CASE playing /\ x.type = "data3"
    <3>1. Packet(m).type = "data0" /\ Packet(m).body = m.wire
      BY <1>8, <2>5 DEF Packet
    <3>2. Reform(m.wire, "DEL").e # ""
      BY <1>9, <2>5 DEF Fits
    <3>3. playing' = FALSE /\ played' = played
      BY <2>2, <2>5, <3>1, <3>2 DEF WriteToPlayer
    <3>4. t + 1 \in Ends(t + 1)
      BY <1>4, <1>6, <2>5, NextEnd
    <3>5. UpTo(t + 1, u)
      BY <1>4, <1>11, <3>4, StaysUpTo
    <3> QED
      BY <1>11, <1>13, <1>14, <2>3, <3>3, <3>4, <3>5
  <2>6. CASE playing /\ x.type # "data3"
    <3>1. Packet(m) = [type |-> x.type, kind |-> KindShown(t + 1), body |-> m.wire]
      BY <1>8, <1>9, <2>3, <2>6 DEF Packet
    <3>2. IF x.type = "data0"
          THEN Reform(m.wire, "DEL").e = "" /\ Reform(m.wire, "DEL").w = x.body
          ELSE m.wire = x.body
      BY <1>9, <1>16, <2>6 DEF Fits
    <3>3. Shown(t + 1) = [type |-> x.type, kind |-> KindShown(t + 1), body |-> x.body]
      BY <1>6 DEF Shown
    <3>4. playing' = playing /\ played' = Append(played, Shown(t + 1))
      <4>1. PICK p : p = Packet(m)
        OBVIOUS
      <4>2. CASE x.type = "data0"
        <5>1. p.type = "data0" /\ p.body = m.wire
          BY <3>1, <4>1, <4>2
        <5>2. PICK r : r = Reform(m.wire, "DEL")
          OBVIOUS
        <5>3. r.e = "" /\ r.w = x.body
          BY <3>2, <4>2, <5>2
        <5>4. Reform(p.body, "DEL") = r
          BY <5>1, <5>2, Zenon
        <5>5. playing' = playing /\ played' = Append(played, [p EXCEPT !.body = r.w])
          BY <2>2, <2>6, <4>1, <5>1, <5>3, <5>4 DEF WriteToPlayer
        <5>6. [p EXCEPT !.body = r.w] = Shown(t + 1)
          <6>1. PICK w : w = r.w
            OBVIOUS
          <6>2. w = x.body
            BY <5>3, <6>1, Zenon
          <6>3. [p EXCEPT !.body = w] = Shown(t + 1)
            BY <3>1, <3>3, <4>1, <6>2
          <6> QED
            BY <6>1, <6>3, Zenon
        <5> QED
          BY <5>5, <5>6
      <4>3. CASE x.type # "data0"
        <5>1. playing' = playing /\ played' = Append(played, [p EXCEPT !.body = p.body])
          BY <2>2, <2>6, <3>1, <3>2, <4>1, <4>3 DEF WriteToPlayer
        <5>2. [p EXCEPT !.body = p.body] = Shown(t + 1)
          BY <3>1, <3>2, <3>3, <4>1, <4>3
        <5> QED
          BY <5>1, <5>2
      <4> QED
        BY <4>2, <4>3
    <3>5. Ends(t) = {} /\ Ends(t + 1) = {}
      BY <1>4, <1>6, <1>10, <1>16, <2>6, NextEnd
    <3>6. u = t
      BY <1>11, <3>5 DEF UpTo
    <3>7. PICK g : g = [k \in 1..(t + 1) |-> Shown(k)]
      OBVIOUS
    <3>8. /\ g = [k \in 1..(t + 1) |-> g[k]] /\ g[t + 1] = Shown(t + 1)
          /\ played = [k \in 1..t |-> g[k]]
      <4>1. t + 1 \in 1..(t + 1) /\ \A k \in 1..t : k \in 1..(t + 1)
        BY <1>4
      <4>2. \A k \in 1..(t + 1) : g[k] = Shown(k)
        BY <3>7
      <4> QED
        BY <1>11, <3>6, <3>7, <4>1, <4>2
    <3>9. played' = [k \in 1..(t + 1) |-> Shown(k)]
      BY <1>4, <3>4, <3>7, <3>8, Appended
    <3>10. UpTo(t + 1, t + 1)
      BY <1>14, <3>5 DEF UpTo
    <3> QED
      BY <1>13, <1>14, <2>3, <2>6, <3>4, <3>5, <3>9, <3>10
  <2> QED
    BY <2>4, <2>5, <2>6
<1> QED
  BY <1>15, <1>16

-----------------------------------------------------------------------------
(* The publisher sends a message *)

LEMMA ShownStays ==
  ASSUME NEW N \in Nat, \A k \in 1..N : published'[k] = published[k], NEW i \in 1..N
  PROVE  Shown(i)' = Shown(i)
<1> DEFINE whole == {j \in 1..i : published[j].kind # "cut"}
<1>1. i \in 1..i /\ \A j \in 1..i : j \in 1..N
  OBVIOUS
<1>2. published'[i] = published[i] /\ whole' = whole
  BY <1>1
<1>3. CASE whole = {}
  <2>1. KindShown(i) = IF published[i].kind # "cut" THEN published[i].kind ELSE "none"
    BY <1>3 DEF KindShown
  <2>2. KindShown(i)' = IF published'[i].kind # "cut" THEN published'[i].kind ELSE "none"
    BY <1>2, <1>3 DEF KindShown
  <2> QED
    BY <1>2, <2>1, <2>2 DEF Shown
<1>4. CASE whole # {}
  <2>1. PICK j \in whole : \A k \in whole : k <= j
    <3>1. i \in Nat /\ whole \subseteq 1..i
      OBVIOUS
    <3> HIDE DEF whole
    <3> QED
      BY <1>4, <3>1, Greatest
  <2>2. Max(whole) = j
    <3>1. whole \in SUBSET Int
      OBVIOUS
    <3> HIDE DEF whole
    <3> QED
      BY <2>1, <3>1, MaxIs
  <2>3. published'[j] = published[j]
    BY <1>1
  <2>4. KindShown(i) = IF published[i].kind # "cut" THEN published[i].kind
                       ELSE IF published[j].type = "audio" THEN published[j].kind ELSE "audio"
    BY <1>4, <2>2 DEF KindShown
  <2>5. Max(whole)' = j
    BY <1>2, <2>2
  <2>6. KindShown(i)' = IF published'[i].kind # "cut" THEN published'[i].kind
                        ELSE IF published'[j].type = "audio" THEN published'[j].kind ELSE "audio"
    BY <1>2, <1>4, <2>5 DEF KindShown
  <2> QED
    BY <1>2, <2>3, <2>4, <2>6 DEF Shown
<1> QED
  BY <1>3, <1>4

LEMMA SendsMedium ==
  ASSUME TypeInv, InboxInv, RelayedInv, SendMedia
  PROVE  RelayedInv'
<1>1. PICK t \in 0..Len(published) : Waiting(t) /\ PlayerInv(t)
  BY DEF RelayedInv
<1>2. PICK N : N = Len(published) /\ N \in Nat /\ DOMAIN published = 1..N
  <2>1. published \in Seq(Media)
    BY DEF TypeInv
  <2> HIDE DEF Media
  <2> QED
    BY <2>1, LenProperties
<1>3. PICK x, msg :
        /\ x \in Media /\ msg.type = x.type /\ msg.means = <<Num(N + 1)>>
        /\ inbox' = Append(inbox, msg) /\ published' = Append(published, x)
        /\ UNCHANGED <<phase, played, playing, header>>
  <2>1. PICK x \in Media : /\ Post(x.type, x.wire, <<Num(Len(published) + 1)>>, "plain")
                           /\ published' = Append(published, x)
    BY DEF SendMedia
  <2>2. PICK msg : msg = [type |-> x.type, wire |-> x.wire,
                          means |-> <<Num(Len(published) + 1)>>, kind |-> "plain"]
    OBVIOUS
  <2>3. inbox' = Append(inbox, msg) /\ UNCHANGED <<phase, played, playing, header>>
    BY <2>1, <2>2 DEF Post, player
  <2>4. msg.type = x.type /\ msg.means = <<Num(N + 1)>>
    BY <1>2, <2>2
  <2> HIDE DEF Media
  <2> QED
    BY <2>1, <2>3, <2>4
<1>4. IsMedia(msg) /\ Place(msg) = N + 1
  <2>1. x.type \in {"video", "audio", "data0", "data3"}
    BY <1>3, MediaTypes
  <2>2. msg.means[1].num = N + 1
    BY <1>3 DEF Num
  <2> QED
    BY <1>3, <2>1, <2>2 DEF IsMedia, Place
<1>5. Len(published') = N + 1 /\ \A k \in 1..N : published'[k] = published[k]
  <2>1. published \in Seq(Media)
    BY DEF TypeInv
  <2>2. IsSeq(published)
    BY <2>1, SeqIs
  <2> HIDE DEF Media
  <2> QED
    BY <1>2, <1>3, <2>2, Added
<1>6. t \in Nat /\ t <= N /\ (\A k \in 1..t : k \in 1..N) /\ t \in 0..Len(published')
  BY <1>1, <1>2, <1>5
<1>7. IsSeq(inbox) /\ Len(inbox) \in Nat
  BY DEF TypeInv, IsSeq
<1>8. /\ Len(inbox') = Len(inbox) + 1
      /\ \A k \in 1..Len(inbox) : inbox'[k] = inbox[k]
      /\ inbox'[Len(inbox) + 1] = msg
  BY <1>3, <1>7, Added
<1>9. Waiting(t)'
  <2>1. \A k \in 1..Len(inbox) : IsMedia(inbox[k]) =>
          Place(inbox[k]) \in 1..N /\ Place(inbox[k]) < N + 1
    <3>1. \A k \in 1..Len(inbox) : IsMedia(inbox[k]) => Place(inbox[k]) \in 1..N
      BY <1>2 DEF InboxInv, MessageOK, MediumOK, Place
    <3>2. \A n \in 1..N : n < N + 1
      BY <1>2
    <3> QED
      BY <3>1, <3>2
  <2>2. \A k \in 1..Len(inbox') : k \in 1..Len(inbox) \/ k = Len(inbox) + 1
    BY <1>7, <1>8
  <2>3. \A k \in 1..Len(inbox) : k \in 1..Len(inbox')
    BY <1>7, <1>8
  <2>4. N + 1 > t /\ Len(inbox) + 1 \in 1..Len(inbox')
    BY <1>2, <1>6, <1>7, <1>8
  <2>5. \A k \in 1..Len(inbox') : IsMedia(inbox'[k]) => Place(inbox'[k]) > t
    BY <1>1, <1>4, <1>8, <2>2, <2>4 DEF Waiting
  <2>6. \A i, j \in 1..Len(inbox') :
          i < j /\ IsMedia(inbox'[i]) /\ IsMedia(inbox'[j]) =>
            Place(inbox'[i]) < Place(inbox'[j])
    <3> SUFFICES ASSUME NEW i \in 1..Len(inbox'), NEW j \in 1..Len(inbox'), i < j,
                        IsMedia(inbox'[i]), IsMedia(inbox'[j])
                 PROVE  Place(inbox'[i]) < Place(inbox'[j])
      OBVIOUS
    <3>1. i \in 1..Len(inbox)
      BY <1>7, <1>8
    <3>2. CASE j \in 1..Len(inbox)
      BY <1>1, <1>8, <3>1, <3>2 DEF Waiting
    <3>3. CASE j = Len(inbox) + 1
      BY <1>4, <1>8, <2>1, <3>1, <3>3
    <3> QED
      BY <2>2, <3>2, <3>3
  <2>7. ASSUME NEW n \in (t + 1)..(N + 1)
        PROVE  \E k \in 1..Len(inbox') : IsMedia(inbox'[k]) /\ Place(inbox'[k]) = n
    <3>1. n \in (t + 1)..N \/ n = N + 1
      BY <1>2, <1>6
    <3>2. CASE n \in (t + 1)..N
      BY <1>1, <1>2, <1>8, <2>3, <3>2 DEF Waiting
    <3>3. CASE n = N + 1
      BY <1>4, <1>8, <2>4, <3>3
    <3> QED
      BY <3>1, <3>2, <3>3
  <2> QED
    BY <1>5, <2>5, <2>6, <2>7 DEF Waiting
<1>10. Whole(t)' = Whole(t) /\ Ends(t)' = Ends(t) /\ \A k \in Whole(t) : published'[k] = published[k]
  BY <1>5, <1>6 DEF Whole, Ends
<1>11. ~Over' => HeaderAt(t)' /\ (playing' <=> Ends(t)' = {})
  BY <1>1, <1>3, <1>10 DEF PlayerInv, HeaderAt, Over
<1>12. PICK u \in 0..t : UpTo(t, u) /\ played = [k \in 1..u |-> Shown(k)]
  BY <1>1 DEF PlayerInv
<1>13. UpTo(t, u)'
  BY <1>10, <1>12 DEF UpTo
<1>14. \A k \in 1..u : Shown(k)' = Shown(k)
  <2> TAKE k \in 1..u
  <2>1. k \in 1..N
    BY <1>2, <1>6
  <2> QED
    BY <1>2, <1>5, <2>1, ShownStays
<1>15. played' = [k \in 1..u |-> Shown(k)']
  BY <1>3, <1>12, <1>14
<1>16. PlayerInv(t)'
  BY <1>11, <1>13, <1>15 DEF PlayerInv
<1> QED
  BY <1>6, <1>9, <1>16 DEF RelayedInv

-----------------------------------------------------------------------------
(* The theorem *)

\* Only a publisher has sent media.
LEMMA NoMediumYet ==
  ASSUME TypeInv, PlaceInv, InboxInv, phase \notin {"publishing", "stopped", "closed"}, Take
  PROVE  ~IsMedia(Head(inbox))
<1>1. published = << >> /\ DOMAIN published = {}
  BY DEF PlaceInv
<1>2. IsSeq(inbox) /\ inbox # << >>
  BY DEF TypeInv, Take
<1>3. Head(inbox) = inbox[1] /\ 1 \in 1..Len(inbox)
  BY <1>2, Rest
<1> QED
  BY <1>1, <1>3 DEF InboxInv, MessageOK, MediumOK

LEMMA Posts ==
  ASSUME TypeInv, RelayedInv, NEW type, NEW wire, NEW means, NEW kind,
         Post(type, wire, means, kind), UNCHANGED published,
         type \notin {"video", "audio", "data0", "data3"}
  PROVE  RelayedInv'
<1>1. PICK m : m = [type |-> type, wire |-> wire, means |-> means, kind |-> kind]
  OBVIOUS
<1>2. ~IsMedia(m)
  BY <1>1 DEF IsMedia
<1>3. inbox' = Append(inbox, m) /\ UNCHANGED <<phase, played, playing, header>>
  BY <1>1 DEF Post, player
<1> QED
  BY <1>2, <1>3, NoneMissed DEF Over

LEMMA RelayedClient == TypeInv /\ InboxInv /\ RelayedInv /\ Client => RelayedInv'
<1> SUFFICES ASSUME TypeInv, InboxInv, RelayedInv, Client
             PROVE  RelayedInv'
  OBVIOUS
<1>1. CASE SendC0C1
  <2>1. PICK wire : Post("C0C1", wire, << >>, "plain")
    BY <1>1 DEF SendC0C1
  <2> QED
    BY <1>1, <2>1, Posts DEF SendC0C1
<1>2. CASE SendC2
  <2>1. PICK echo : Post("C2", <<[time |-> echo, random |-> echo]>>, << >>, "plain")
    BY <1>2 DEF SendC2
  <2> QED
    BY <1>2, <2>1, Posts DEF SendC2
<1>3. CASE SendCommand
  <2>1. PICK type, wire, vals :
          type \in {"command0", "command3"} /\ Post(type, wire, vals, "plain")
    BY <1>3 DEF SendCommand
  <2>2. type \notin {"video", "audio", "data0", "data3"}
    BY <2>1
  <2>3. UNCHANGED published
    BY <1>3 DEF SendCommand
  <2> QED
    BY <2>1, <2>2, <2>3, Posts
<1>4. CASE SendOther
  <2>1. PICK wire, means, kind : Post("command0", wire, means, kind)
    BY <1>4 DEF SendOther
  <2>2. UNCHANGED published
    BY <1>4 DEF SendOther
  <2> QED
    BY <2>1, <2>2, Posts
<1>5. CASE SendControl
  BY <1>5, Posts DEF SendControl
<1>6. CASE SendMedia
  BY <1>6, SendsMedium
<1>7. CASE Leave
  BY <1>7, NoneMissed DEF Leave, player, Over
<1> QED
  BY <1>1, <1>2, <1>3, <1>4, <1>5, <1>6, <1>7 DEF Client

LEMMA RelayedStep == IInv /\ RelayedInv /\ [Next]_vars => RelayedInv'
<1> SUFFICES ASSUME IInv, RelayedInv, [Next]_vars
             PROVE  RelayedInv'
  OBVIOUS
<1>0. TypeInv /\ PlaceInv /\ InboxInv
  BY DEF IInv
<1>1. CASE Client
  BY <1>0, <1>1, RelayedClient
<1>2. CASE ReadC0C1 \/ ReadC2 \/ handleCmdMsg \/ SkipMsg \/ Check
  <2>1. /\ Take /\ phase \notin {"publishing", "stopped", "closed"}
        /\ UNCHANGED <<published, played, playing, header>>
    BY <1>2 DEF ReadC0C1, ReadC2, handleCmdMsg, SkipMsg, Check, player, client
  <2>2. ~IsMedia(Head(inbox))
    BY <1>0, <2>1, NoMediumYet
  <2> QED
    BY <1>0, <2>1, <2>2, NoneMissed DEF Over
<1>3. CASE ReadPacket
  <2>1. CASE IsMedia(Head(inbox))
    BY <1>0, <1>3, <2>1, ReadsMedium
  <2>2. CASE ~IsMedia(Head(inbox))
    <3>1. Take /\ phase' = phase /\ UNCHANGED <<published, played, playing, header>>
      BY <1>3, <2>2 DEF ReadPacket, player, client
    <3> QED
      BY <1>0, <2>2, <3>1, NoneMissed DEF Over
  <2> QED
    BY <2>1, <2>2
<1>4. CASE ReadFails \/ TimeOut \/ SessionEnds
  <2>1. UNCHANGED <<published, played, inbox>>
    BY <1>4 DEF ReadFails, TimeOut, SessionEnds, Lost, client
  <2>2. Over'
    BY <1>4 DEF ReadFails, TimeOut, SessionEnds, Lost, Over
  <2> QED
    BY <1>0, <2>1, <2>2, NoneMissed
<1>5. CASE UNCHANGED vars
  BY <1>0, <1>5, NoneMissed DEF vars, player, client, Over
<1> QED
  BY <1>1, <1>2, <1>3, <1>4, <1>5 DEF Next, Server

\* What a publisher sends reaches a player whole, in order and with the kind that
\* the relay goes by, up to what ends the one or the other.
THEOREM ReachesPlayersWhole == Spec /\ []CommandsHeard => []RelayedWhole
<1>1. Init => RelayedInv
  BY InitRelayed
<1>2. IInv /\ RelayedInv /\ [Next]_vars => RelayedInv'
  BY RelayedStep
<1>3. IInv /\ RelayedInv => RelayedWhole
  BY InvImplies DEF IInv
<1> QED
  BY <1>1, <1>2, <1>3, Inductive, PTL DEF Spec

-----------------------------------------------------------------------------
(* Publisher and player are the two ends of a Pipe *)

\* How many of the published messages may ever reach the player.
Lasting == CHOOSE l \in 0..Len(published) : UpTo(Len(published), l)
Lasts == [i \in 1..Lasting |-> Shown(i)]

\* What is published before anything that ends the publisher or the player has
\* been sent, and what the player has got.  The pipe is broken when the
\* connection is closed; the player, who has no end of his own, never knows.
Relaying == INSTANCE Pipe WITH
  finished <- Lasts, returned <- played, broken <- (phase = "closed"), ended <- FALSE

LEMMA LastingIs ==
  ASSUME TypeInv
  PROVE  /\ Len(published) \in Nat /\ Lasting \in 0..Len(published)
         /\ UpTo(Len(published), Lasting)
<1>1. PICK N : N = Len(published) /\ N \in Nat
  <2>1. published \in Seq(Media)
    BY DEF TypeInv
  <2> HIDE DEF Media
  <2> QED
    BY <2>1, LenProperties
<1>2. \E l \in 0..N : UpTo(N, l)
  <2>1. CASE Ends(N) = {}
    BY <1>1, <2>1 DEF UpTo
  <2>2. CASE Ends(N) # {}
    <3> DEFINE Rel == OpToRel(<, Nat)
    <3>1. Ends(N) \subseteq 1..N /\ Ends(N) \subseteq Nat
      BY <1>1 DEF Ends
    <3>2. IsWellFoundedOn(Rel, Nat)
      BY NatLessThanWellFounded
    <3> HIDE DEF Rel
    <3>3. PICK k \in Ends(N) : \A j \in Ends(N) : ~(<<j, k>> \in Rel)
      BY <2>2, <3>1, <3>2, WFMin
    <3>4. \A j \in Ends(N) : k <= j
      <4> TAKE j \in Ends(N)
      <4>1. j \in Nat /\ k \in Nat
        BY <3>1
      <4>2. ~(j < k)
        BY <3>3, <4>1 DEF Rel, OpToRel
      <4> QED
        BY <4>1, <4>2
    <3>5. k \in 1..N /\ k - 1 \in 0..N /\ (k - 1) + 1 = k
      BY <1>1, <3>1
    <3>6. \A j \in Ends(N) : j \in Nat /\ k - 1 < j
      BY <3>1, <3>4, <3>5
    <3> QED
      BY <3>3, <3>5, <3>6 DEF UpTo
  <2> QED
    BY <2>1, <2>2
<1> QED
  BY <1>1, <1>2 DEF Lasting

\* Of two lengths up to which nothing ends, the one of the longer sequence is not
\* less.
LEMMA UpToGrows ==
  ASSUME NEW t \in Nat, NEW n \in Nat, t <= n, NEW u, NEW l, UpTo(t, u),
         l \in 0..n, l = n \/ \E k \in 1..n : k = l + 1 /\ (k <= t => k \in Ends(t))
  PROVE  u <= l
<1>1. u \in 0..t /\ \A i \in Ends(t) : u < i
  BY DEF UpTo
<1>2. CASE l = n
  BY <1>1, <1>2
<1>3. ASSUME NEW k \in 1..n, k = l + 1, k <= t => k \in Ends(t)
      PROVE  u <= l
  <2>1. CASE k <= t
    BY <1>1, <1>3, <2>1
  <2>2. CASE ~(k <= t)
    BY <1>1, <1>3, <2>2
  <2> QED
    BY <2>1, <2>2
<1> QED
  BY <1>2, <1>3

\* What the player has got is the beginning of what may reach him.
PlayedFirst ==
  /\ Len(published) \in Nat /\ Lasting \in 0..Len(published) /\ Lasting \in Nat
  /\ UpTo(Len(published), Lasting)
  /\ \E u \in 0..Lasting : played = [i \in 1..u |-> Shown(i)]

LEMMA PlayedIsFirst ==
  ASSUME TypeInv, RelayedInv
  PROVE  PlayedFirst
<1>1. PICK t \in 0..Len(published) : Waiting(t) /\ PlayerInv(t)
  BY DEF RelayedInv
<1>2. PICK u \in 0..t : UpTo(t, u) /\ played = [i \in 1..u |-> Shown(i)]
  BY <1>1 DEF PlayerInv
<1>3. PICK n, l : /\ n = Len(published) /\ l = Lasting /\ n \in Nat /\ l \in 0..n /\ UpTo(n, l)
                  /\ t \in Nat /\ t <= n
  BY <1>1, LastingIs
<1>4. l = n \/ \E k \in 1..n : k = l + 1 /\ (k <= t => k \in Ends(t))
  <2> SUFFICES ASSUME l # n
               PROVE  l + 1 \in 1..n /\ (l + 1 <= t => l + 1 \in Ends(t))
    OBVIOUS
  <2>1. l + 1 \in Ends(n)
    BY <1>3 DEF UpTo
  <2> QED
    BY <1>3, <2>1 DEF Ends
<1>5. u <= l
  BY <1>2, <1>3, <1>4, UpToGrows
<1> QED
  BY <1>2, <1>3, <1>5, LastingIs DEF PlayedFirst

\* Steps after which the player has what he had, or the next message.
LEMMA NothingSent ==
  ASSUME TypeInv, UNCHANGED <<published, played>>, phase = "closed" => phase' = "closed"
  PROVE  [Relaying!PipeNext]_(Relaying!pipeVars)
<1>1. UNCHANGED <<Lasts, played>>
  BY DEF Lasts, Lasting, UpTo, Ends, Shown, KindShown
<1>2. CASE phase # "closed" /\ phase' = "closed"
  <2>1. Relaying!BreakPipe
    BY <1>1, <1>2 DEF Relaying!BreakPipe
  <2> QED
    BY <2>1 DEF Relaying!PipeNext
<1>3. CASE ~(phase # "closed" /\ phase' = "closed")
  <2>1. (phase = "closed") = (phase' = "closed")
    BY <1>3
  <2>2. UNCHANGED Relaying!pipeVars
    BY <1>1, <2>1 DEF Relaying!pipeVars
  <2> QED
    BY <2>2
<1> QED
  BY <1>2, <1>3

LEMMA OneSent ==
  ASSUME PlayedFirst, PlayedFirst', UNCHANGED <<published, phase>>,
         NEW y, played' = Append(played, y)
  PROVE  Relaying!Return
<1>1. PICK u \in 0..Lasting : played = [i \in 1..u |-> Shown(i)]
  BY DEF PlayedFirst
<1>2. UNCHANGED <<Lasts, Lasting>> /\ \A i : Shown(i)' = Shown(i)
  BY DEF Lasts, Lasting, UpTo, Ends, Shown, KindShown
<1>3. PICK v \in 0..Lasting : played' = [i \in 1..v |-> Shown(i)]
  <2>1. PICK v \in 0..Lasting' : played' = [i \in 1..v |-> Shown(i)']
    BY DEF PlayedFirst
  <2> QED
    BY <1>2, <2>1
<1>4. Lasting \in Nat
  BY DEF PlayedFirst
<1>5. IsSeq(played) /\ Len(played) = u
  BY <1>1, <1>4 DEF IsSeq
<1>6. Len(played') = u + 1 /\ played'[u + 1] = y
  BY <1>5, Added
<1>7. Len(played') = v
  BY <1>3, <1>4
<1>8. v = u + 1 /\ u + 1 \in 1..Lasting /\ u < Lasting
  BY <1>4, <1>6, <1>7
<1>9. y = Shown(u + 1)
  BY <1>3, <1>6, <1>8
<1>10. Len(Lasts) = Lasting /\ Lasts[u + 1] = Shown(u + 1)
  BY <1>4, <1>8 DEF Lasts
<1>11. Len(played) < Len(Lasts) /\ played' = Append(played, Lasts[Len(played) + 1])
  BY <1>5, <1>8, <1>9, <1>10
<1> QED
  BY <1>2, <1>11 DEF Relaying!Return

LEMMA Continued ==
  ASSUME NEW n \in Nat, NEW f, f = [i \in 1..n |-> f[i]],
         NEW g, g = [i \in 1..(n + 1) |-> g[i]], \A i \in 1..n : g[i] = f[i]
  PROVE  f = SubSeq(g, 1, Len(f)) /\ Len(g) = Len(f) + 1
<1>1. Len(f) = n /\ Len(g) = n + 1
  OBVIOUS
<1>2. PICK r : r = SubSeq(g, 1, n)
  OBVIOUS
<1>3. PICK S : S = {g[i] : i \in 1..(n + 1)}
  OBVIOUS
<1>4. \A i \in 1..n : g[i] \in S
  <2>1. \A i \in 1..n : i \in 1..(n + 1)
    OBVIOUS
  <2> QED
    BY <1>3, <2>1
<1>5. r \in Seq(S) /\ Len(r) = n /\ \A i \in 1..n : r[i] = g[i]
  <2>1. /\ r \in Seq(S) /\ Len(r) = IF 1 <= n THEN n - 1 + 1 ELSE 0
        /\ \A i \in 1..(n - 1 + 1) : r[i] = g[1 + i - 1]
    BY <1>2, <1>4, SubSeqProperties
  <2>2. Len(r) = n /\ \A i \in 1..n : i \in 1..(n - 1 + 1) /\ 1 + i - 1 = i
    BY <2>1
  <2> QED
    BY <2>1, <2>2
<1>6. r = [i \in 1..n |-> r[i]]
  BY <1>5, LenProperties
<1>7. r = f
  BY <1>5, <1>6
<1> QED
  BY <1>1, <1>2, <1>7

\* One message more is published: it may reach the player, or comes too late.
LEMMA OnePublished ==
  ASSUME TypeInv, PlayedFirst, PlayedFirst', phase # "closed", UNCHANGED <<played, phase>>,
         NEW x, published' = Append(published, x)
  PROVE  [Relaying!PipeNext]_(Relaying!pipeVars)
<1>1. PICK n, l : n = Len(published) /\ l = Lasting /\ n \in Nat /\ l \in 0..n /\ UpTo(n, l)
  BY DEF PlayedFirst
<1>2. Len(published') = n + 1 /\ \A k \in 1..n : published'[k] = published[k]
  <2>1. published \in Seq(Media)
    BY DEF TypeInv
  <2>2. IsSeq(published)
    BY <2>1, SeqIs
  <2> HIDE DEF Media
  <2> QED
    BY <1>1, <2>2, Added
<1>3. PICK m : m = Lasting' /\ m \in 0..(n + 1) /\ UpTo(n + 1, m)'
  BY <1>2 DEF PlayedFirst, UpTo
<1>4. \A k \in 1..n : k \in Ends(n) <=> k \in Ends(n + 1)'
  BY <1>1, <1>2 DEF Ends
<1>a. n \in Nat /\ l \in 0..n
  BY <1>1
<1>b. m \in 0..(n + 1)
  BY <1>3
<1>5. m = l \/ m = l + 1
  <2>1. /\ \A k \in Ends(n + 1)' : m < k
        /\ m = n + 1 \/ m + 1 \in Ends(n + 1)'
    BY <1>3 DEF UpTo
  <2>2. /\ \A k \in Ends(n) : l < k
        /\ l = n \/ l + 1 \in Ends(n)
    BY <1>1 DEF UpTo
  <2>3. Ends(n) \subseteq 1..n
    BY DEF Ends
  <2>4. l <= m
    <3>1. ASSUME m < l PROVE FALSE
      <4>1. m + 1 \in 1..n /\ m # n + 1 /\ ~(l < m + 1)
        BY <1>a, <1>b, <3>1
      <4>2. m + 1 \in Ends(n)
        BY <1>4, <2>1, <4>1
      <4> QED
        BY <2>2, <4>1, <4>2
    <3> QED
      BY <1>a, <1>b, <3>1
  <2>5. m <= l + 1
    <3>1. CASE l = n
      BY <1>1, <1>3, <3>1
    <3>2. CASE l + 1 \in Ends(n)
      <4>1. l + 1 \in Ends(n + 1)'
        BY <1>4, <2>3, <3>2
      <4> QED
        BY <1>1, <1>3, <2>1, <4>1
    <3> QED
      BY <2>2, <3>1, <3>2
  <2> QED
    BY <1>1, <1>3, <2>4, <2>5
<1>6. \A k \in 1..l : Shown(k)' = Shown(k)
  <2> TAKE k \in 1..l
  <2>1. k \in 1..n
    BY <1>1
  <2> QED
    BY <1>1, <1>2, <2>1, ShownStays
<1>7. /\ Lasts = [k \in 1..l |-> Shown(k)] /\ Lasts' = [k \in 1..m |-> Shown(k)']
  BY <1>1, <1>3 DEF Lasts
<1>8. CASE m = l
  <2>1. Lasts' = Lasts
    BY <1>6, <1>7, <1>8
  <2>2. UNCHANGED Relaying!pipeVars
    BY <2>1 DEF Relaying!pipeVars
  <2> QED
    BY <2>2
<1>9. CASE m = l + 1
  <2>1. PICK f, g : f = Lasts /\ g = Lasts'
    OBVIOUS
  <2>2. /\ l \in Nat /\ f = [k \in 1..l |-> f[k]] /\ g = [k \in 1..(l + 1) |-> g[k]]
        /\ \A k \in 1..l : g[k] = f[k]
    <3>1. l \in Nat /\ \A k \in 1..l : k \in 1..(l + 1)
      BY <1>1
    <3> QED
      BY <1>6, <1>7, <1>9, <2>1, <3>1
  <2>3. f = SubSeq(g, 1, Len(f)) /\ Len(g) = Len(f) + 1
    BY <2>2, Continued
  <2>4. Relaying!Finish
    BY <2>1, <2>3 DEF Relaying!Finish
  <2> QED
    BY <2>4 DEF Relaying!PipeNext
<1> QED
  BY <1>5, <1>8, <1>9

LEMMA RelaysAStep ==
  ASSUME IInv, PlayedFirst, PlayedFirst', [Next]_vars
  PROVE  [Relaying!PipeNext]_(Relaying!pipeVars)
<1>0. TypeInv
  BY DEF IInv
<1>1. CASE ReadPacket
  <2>1. UNCHANGED published /\ phase # "closed"
    BY <1>1 DEF ReadPacket, Lost, client
  <2>2. CASE UNCHANGED played
    BY <1>0, <2>1, <2>2, NothingSent
  <2>3. CASE played' # played
    <3>1. PICK p : WriteToPlayer(p) /\ phase' = phase
      BY <1>1, <2>3 DEF ReadPacket, Lost, player
    <3>2. PICK y : played' = Append(played, y)
      <4>1. PICK r : r = Reform(p.body, "DEL")
        OBVIOUS
      <4>2. CASE p.type = "data0"
        <5>1. \/ played' = Append(played, [p EXCEPT !.body = r.w])
              \/ played' = played
          BY <3>1, <4>1, <4>2 DEF WriteToPlayer
        <5> QED
          BY <2>3, <5>1
      <4>3. CASE p.type # "data0"
        <5>1. \/ played' = Append(played, [p EXCEPT !.body = p.body])
              \/ played' = played
          BY <3>1, <4>3 DEF WriteToPlayer
        <5> QED
          BY <2>3, <5>1
      <4> QED
        BY <4>2, <4>3
    <3>3. Relaying!Return
      BY <2>1, <3>1, <3>2, OneSent
    <3> QED
      BY <3>3 DEF Relaying!PipeNext
  <2> QED
    BY <2>2, <2>3
<1>2. CASE SendMedia
  <2>1. PICK x : published' = Append(published, x)
    BY <1>2 DEF SendMedia
  <2>2. phase # "closed" /\ UNCHANGED <<played, phase>>
    BY <1>2 DEF SendMedia, Post, player
  <2> QED
    BY <1>0, <2>1, <2>2, OnePublished
<1>3. CASE \/ SendC0C1 \/ SendC2 \/ SendCommand \/ SendOther \/ SendControl \/ Leave
  <2>1. UNCHANGED <<published, played, phase>>
    BY <1>3
    DEF SendC0C1, SendC2, SendCommand, SendOther, SendControl, Leave, Post, player
  <2> QED
    BY <1>0, <2>1, NothingSent
<1>4. CASE \/ ReadC0C1 \/ ReadC2 \/ handleCmdMsg \/ SkipMsg \/ Check \/ ReadFails
           \/ TimeOut \/ SessionEnds
  <2>1. UNCHANGED <<published, played>> /\ phase # "closed"
    BY <1>4 DEF ReadC0C1, ReadC2, handleCmdMsg, SkipMsg, Check, ReadFails, TimeOut, SessionEnds,
                Lost, Over, player, client
  <2> QED
    BY <1>0, <2>1, NothingSent
<1>5. CASE UNCHANGED vars
  BY <1>0, <1>5, NothingSent DEF vars, player, client
<1> QED
  BY <1>1, <1>2, <1>3, <1>4, <1>5 DEF Next, Client, Server

\* Publisher and player are the two ends of a Pipe: what is published before
\* anything that ends the one or the other reaches the player in order and once,
\* and what has reached him never changes.
THEOREM RelaysAsPipe == Spec /\ []CommandsHeard => Relaying!PipeSpec
<1>1. Init => Relaying!PipeInit
  <2> SUFFICES ASSUME Init PROVE Relaying!PipeInit
    OBVIOUS
  <2>1. Len(published) = 0 /\ played = << >> /\ phase = "C0C1"
    BY DEF Init
  <2>2. \A l \in 0..0 : l = 0
    OBVIOUS
  <2>3. UpTo(0, 0) /\ 0 \in 0..0
    BY DEF UpTo, Ends
  <2>4. Lasting = 0
    BY <2>1, <2>2, <2>3 DEF Lasting
  <2>5. Lasts = << >>
    BY <2>4 DEF Lasts
  <2> QED
    BY <2>1, <2>5 DEF Relaying!PipeInit
<1>2. Init => RelayedInv
  BY InitRelayed
<1>3. IInv /\ RelayedInv /\ [Next]_vars => RelayedInv'
  BY RelayedStep
<1>4. IInv /\ RelayedInv => PlayedFirst
  BY PlayedIsFirst DEF IInv
<1>5. IInv /\ PlayedFirst /\ PlayedFirst' /\ [Next]_vars => [Relaying!PipeNext]_(Relaying!pipeVars)
  BY RelaysAStep
<1> QED
  BY <1>1, <1>2, <1>3, <1>4, <1>5, Inductive, PTL DEF Spec, Relaying!PipeSpec

=============================================================================
