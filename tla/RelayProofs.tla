----------------------------- MODULE RelayProofs -----------------------------
(***************************************************************************)
(* Proofs about what players are sent: for any set of players, any number   *)
(* of packets and any limit of the cached group, and whenever they join,    *)
(* leave, time out and are visited by the publisher's Range.                *)
(***************************************************************************)
EXTENDS Relay, TLAPS

(* s is the sequence of kinds that were published, g what a player got.     *)

IsVid(s, id) == s[id] \in {"key", "frame"}

\* What NoGap, BeginsWithKey and HeaderFirst say of one player.
Gapless(s, g) ==
  \A i, j \in 1..Len(g) :
    i < j /\ IsVid(s, g[i]) /\ IsVid(s, g[j]) =>
      /\ g[i] < g[j]
      /\ \A id \in g[i]..g[j] : IsVid(s, id) => \E k \in i..j : g[k] = id

KeyFirst(s, g) ==
  \A i \in 1..Len(g) :
    IsVid(s, g[i]) /\ (\A j \in 1..(i - 1) : ~IsVid(s, g[j])) =>
      s[g[i]] = "key" \/ \A id \in 1..g[i] : s[id] # "key"

Headed(s, g) ==
  \A i \in 1..Len(g) :
    IsVid(s, g[i]) =>
      \A h \in 1..g[i] :
        s[h] = "header" => \E j \in 1..(i - 1) : g[j] >= h /\ s[g[j]] = "header"

\* Nothing is missing up to the packet n: the player has all video from its
\* first on, has some if there was a key frame, and the last header.
UpToDate(s, g, n) ==
  /\ \A i \in 1..Len(g) : g[i] <= n
  /\ \A i \in 1..Len(g) : IsVid(s, g[i]) =>
       \A id \in g[i]..n : IsVid(s, id) => \E k \in i..Len(g) : g[k] = id
  /\ (\A i \in 1..Len(g) : ~IsVid(s, g[i])) => \A id \in 1..n : s[id] # "key"
  /\ \A h \in 1..n : s[h] = "header" =>
       \E j \in 1..Len(g) : g[j] >= h /\ s[g[j]] = "header"

\* The cache holds the last header, and all video from the last key frame on.
CacheHolds(s, h, c) ==
  /\ h \in 0..Len(s)
  /\ h = 0 => \A i \in 1..Len(s) : s[i] # "header"
  /\ h # 0 => s[h] = "header" /\ \A i \in 1..Len(s) : s[i] = "header" => i <= h
  /\ c \in Seq(1..Len(s))
  /\ \A i \in 1..Len(c) : IsVid(s, c[i])
  /\ \A i, j \in 1..Len(c) : i < j => c[i] < c[j]
  /\ c = << >> => \A i \in 1..Len(s) : s[i] # "key"
  /\ c # << >> => /\ s[c[1]] = "key"
                  /\ \A id \in c[1]..Len(s) :
                       IsVid(s, id) => \E k \in 1..Len(c) : c[k] = id

-----------------------------------------------------------------------------
(* Another packet is published *)

LEMMA Appended ==
  ASSUME NEW S, NEW s \in Seq(S), NEW k \in S
  PROVE  /\ Append(s, k) \in Seq(S)
         /\ Len(Append(s, k)) = Len(s) + 1
         /\ Len(s) \in Nat
         /\ \A i \in 1..Len(s) : Append(s, k)[i] = s[i]
         /\ Append(s, k)[Len(s) + 1] = k
<1> QED
  OBVIOUS

LEMMA SeqOfMore ==
  ASSUME NEW S, NEW T, S \subseteq T, NEW q \in Seq(S)
  PROVE  q \in Seq(T)
<1> QED
  OBVIOUS

LEMMA SeqOfOne ==
  ASSUME NEW S, NEW x \in S
  PROVE  <<x>> \in Seq(S) /\ Len(<<x>>) = 1 /\ <<x>>[1] = x /\ <<x>> # << >>
<1> QED
  OBVIOUS

\* What was said of a player stays true.
LEMMA PublishedKeeps ==
  ASSUME NEW s \in Seq(Kinds), NEW k \in Kinds, NEW g \in Seq(1..Len(s))
  PROVE  /\ g \in Seq(1..Len(Append(s, k)))
         /\ Gapless(s, g) => Gapless(Append(s, k), g)
         /\ KeyFirst(s, g) => KeyFirst(Append(s, k), g)
         /\ Headed(s, g) => Headed(Append(s, k), g)
         /\ UpToDate(s, g, Len(s)) => UpToDate(Append(s, k), g, Len(s))
<1> DEFINE t == Append(s, k)
<1>1. Len(t) = Len(s) + 1 /\ Len(s) \in Nat /\ \A i \in 1..Len(s) : t[i] = s[i]
  BY Appended
<1>2. \A i \in 1..Len(g) : g[i] \in 1..Len(s)
  OBVIOUS
<1>3. \A id \in 1..Len(s) : IsVid(t, id) = IsVid(s, id)
  BY <1>1 DEF IsVid
<1>4. g \in Seq(1..Len(t))
  <2>1. 1..Len(s) \subseteq 1..Len(t)
    BY <1>1
  <2> QED
    BY <2>1
<1> HIDE DEF t
<1>5. Gapless(s, g) => Gapless(t, g)
  <2> SUFFICES ASSUME Gapless(s, g), NEW i \in 1..Len(g), NEW j \in 1..Len(g),
                      i < j, IsVid(t, g[i]), IsVid(t, g[j])
               PROVE  /\ g[i] < g[j]
                      /\ \A id \in g[i]..g[j] : IsVid(t, id) => \E n \in i..j : g[n] = id
    BY DEF Gapless
  <2>1. g[i] \in 1..Len(s) /\ g[j] \in 1..Len(s) /\ IsVid(s, g[i]) /\ IsVid(s, g[j])
    BY <1>2, <1>3
  <2>2. g[i] < g[j] /\ \A id \in g[i]..g[j] : IsVid(s, id) => \E n \in i..j : g[n] = id
    BY <2>1 DEF Gapless
  <2>3. \A id \in g[i]..g[j] : id \in 1..Len(s)
    BY <1>1, <2>1
  <2> QED
    BY <1>3, <2>2, <2>3
<1>6. KeyFirst(s, g) => KeyFirst(t, g)
  <2> SUFFICES ASSUME KeyFirst(s, g), NEW i \in 1..Len(g), IsVid(t, g[i]),
                      \A j \in 1..(i - 1) : ~IsVid(t, g[j])
               PROVE  t[g[i]] = "key" \/ \A id \in 1..g[i] : t[id] # "key"
    BY DEF KeyFirst
  <2>1. \A j \in 1..(i - 1) : j \in 1..Len(g)
    OBVIOUS
  <2>2. s[g[i]] = "key" \/ \A id \in 1..g[i] : s[id] # "key"
    BY <1>2, <1>3, <2>1 DEF KeyFirst
  <2>3. \A id \in 1..g[i] : id \in 1..Len(s)
    BY <1>1, <1>2
  <2> QED
    BY <1>1, <1>2, <2>2, <2>3
<1>7. Headed(s, g) => Headed(t, g)
  <2> SUFFICES ASSUME Headed(s, g), NEW i \in 1..Len(g), IsVid(t, g[i]),
                      NEW h \in 1..g[i], t[h] = "header"
               PROVE  \E j \in 1..(i - 1) : g[j] >= h /\ t[g[j]] = "header"
    BY DEF Headed
  <2>1. h \in 1..Len(s)
    BY <1>1, <1>2
  <2>2. PICK j \in 1..(i - 1) : g[j] >= h /\ s[g[j]] = "header"
    BY <1>1, <1>2, <1>3, <2>1 DEF Headed
  <2>3. j \in 1..Len(g)
    BY <2>2
  <2> QED
    BY <1>1, <1>2, <2>2, <2>3
<1>8. UpToDate(s, g, Len(s)) => UpToDate(t, g, Len(s))
  <2> SUFFICES ASSUME UpToDate(s, g, Len(s)) PROVE UpToDate(t, g, Len(s))
    OBVIOUS
  <2>1. ASSUME NEW i \in 1..Len(g), IsVid(t, g[i]), NEW id \in g[i]..Len(s), IsVid(t, id)
        PROVE  \E n \in i..Len(g) : g[n] = id
    <3>1. id \in 1..Len(s)
      BY <1>1, <1>2
    <3> QED
      BY <1>2, <1>3, <2>1, <3>1 DEF UpToDate
  <2>2. (\A i \in 1..Len(g) : ~IsVid(t, g[i])) => \A id \in 1..Len(s) : t[id] # "key"
    BY <1>1, <1>2, <1>3 DEF UpToDate
  <2>3. ASSUME NEW h \in 1..Len(s), t[h] = "header"
        PROVE  \E j \in 1..Len(g) : g[j] >= h /\ t[g[j]] = "header"
    BY <1>1, <1>2, <2>3 DEF UpToDate
  <2> QED
    BY <1>2, <2>1, <2>2, <2>3 DEF UpToDate
<1> QED
  BY <1>4, <1>5, <1>6, <1>7, <1>8 DEF t

\* The cache takes the packet: a key frame begins a new group, other video goes
\* on with one there is.
LEMMA CachePublished ==
  ASSUME NEW s \in Seq(Kinds), NEW k \in Kinds, NEW h, NEW c, CacheHolds(s, h, c),
         NEW d, d = IF k = "key" THEN <<Len(s) + 1>>
                    ELSE IF k = "frame" /\ c # << >> THEN Append(c, Len(s) + 1) ELSE c
  PROVE  CacheHolds(Append(s, k), IF k = "header" THEN Len(s) + 1 ELSE h, d)
<1> DEFINE t == Append(s, k)
           n == Len(s) + 1
           e == IF k = "header" THEN n ELSE h
<1>1. /\ Len(t) = n /\ Len(s) \in Nat /\ t[n] = k
      /\ \A i \in 1..Len(s) : t[i] = s[i]
      /\ 1..Len(t) = 1..Len(s) \union {n}
  BY Appended
<1>2. \A i \in 1..Len(s) : IsVid(t, i) = IsVid(s, i)
  BY <1>1 DEF IsVid
<1>3. /\ c \in Seq(1..Len(s)) /\ Len(c) \in Nat
      /\ \A i \in 1..Len(c) : c[i] \in 1..Len(s) /\ IsVid(t, c[i])
  BY <1>2 DEF CacheHolds
<1> HIDE DEF t
<1>4. e \in 0..Len(t)
  BY <1>1 DEF CacheHolds
<1>5. e = 0 => \A i \in 1..Len(t) : t[i] # "header"
  BY <1>1 DEF CacheHolds
<1>6. e # 0 => t[e] = "header" /\ \A i \in 1..Len(t) : t[i] = "header" => i <= e
  <2>1. CASE k = "header"
    BY <1>1, <2>1
  <2>2. CASE k # "header"
    <3>1. e = h /\ h \in 0..Len(s)
      BY <2>2 DEF CacheHolds
    <3>2. ASSUME h # 0 PROVE s[h] = "header" /\ \A i \in 1..Len(s) : s[i] = "header" => i <= h
      BY <3>2 DEF CacheHolds
    <3>3. h # 0 => h \in 1..Len(s)
      BY <1>1, <3>1
    <3> QED
      BY <1>1, <2>2, <3>1, <3>2, <3>3
  <2> QED
    BY <2>1, <2>2
<1> HIDE DEF e
<1>7. CASE k = "key"
  <2>1. d = <<n>> /\ Len(d) = 1 /\ d[1] = n /\ n \in 1..Len(t) /\ d # << >>
    BY <1>1, <1>7
  <2>2. d \in Seq(1..Len(t))
    BY <2>1, SeqOfOne
  <2>3. t[n] = "key" /\ IsVid(t, n)
    BY <1>1, <1>7 DEF IsVid
  <2> QED
    BY <1>1, <1>4, <1>5, <1>6, <2>1, <2>2, <2>3 DEF CacheHolds, t, e
<1>8. CASE k = "frame" /\ c # << >>
  <2>1. d = Append(c, n)
    BY <1>8
  <2>2. /\ Len(d) = Len(c) + 1 /\ d[Len(c) + 1] = n /\ Len(c) >= 1
        /\ \A i \in 1..Len(c) : d[i] = c[i]
        /\ d # << >>
    BY <1>3, <1>8, <2>1
  <2>3. d \in Seq(1..Len(t))
    <3>1. c \in Seq(1..Len(t)) /\ n \in 1..Len(t)
      BY <1>1, <1>3
    <3> QED
      BY <2>1, <3>1, Appended
  <2>4. t[n] = "frame" /\ IsVid(t, n)
    BY <1>1, <1>8 DEF IsVid
  <2>5. \A i \in 1..Len(d) : IsVid(t, d[i])
    BY <1>3, <2>2, <2>4
  <2>6. ASSUME NEW i \in 1..Len(d), NEW j \in 1..Len(d), i < j
        PROVE  d[i] < d[j]
    <3>1. CASE j = Len(c) + 1
      BY <1>1, <1>3, <2>2, <2>6, <3>1
    <3>2. CASE j \in 1..Len(c)
      BY <1>3, <2>2, <2>6, <3>2 DEF CacheHolds
    <3> QED
      BY <1>3, <2>2, <3>1, <3>2
  <2>7. t[d[1]] = "key"
    <3>1. s[c[1]] = "key" /\ d[1] = c[1]
      BY <1>8, <2>2 DEF CacheHolds
    <3> QED
      BY <1>1, <1>3, <2>2, <3>1
  <2>8. ASSUME NEW id \in d[1]..Len(t), IsVid(t, id)
        PROVE  \E m \in 1..Len(d) : d[m] = id
    <3>1. CASE id = n
      BY <1>3, <2>2, <3>1
    <3>2. CASE id # n
      <4>1. id \in c[1]..Len(s) /\ id \in 1..Len(s)
        BY <1>1, <1>3, <2>2, <3>2
      <4>2. PICK m \in 1..Len(c) : c[m] = id
        BY <1>2, <1>8, <2>8, <4>1 DEF CacheHolds
      <4> QED
        BY <1>3, <2>2, <4>2
    <3> QED
      BY <3>1, <3>2
  <2> QED
    BY <1>4, <1>5, <1>6, <2>2, <2>3, <2>5, <2>6, <2>7, <2>8 DEF CacheHolds, t, e
<1>9. CASE k # "key" /\ ~(k = "frame" /\ c # << >>)
  <2>1. d = c
    BY <1>9
  <2>2. c \in Seq(1..Len(t))
    <3>1. 1..Len(s) \subseteq 1..Len(t)
      BY <1>1
    <3> QED
      BY <1>3, <3>1
  <2>3. c = << >> => \A i \in 1..Len(t) : t[i] # "key"
    BY <1>1, <1>9 DEF CacheHolds
  <2>4. ASSUME c # << >>
        PROVE  /\ t[c[1]] = "key"
               /\ \A id \in c[1]..Len(t) : IsVid(t, id) => \E m \in 1..Len(c) : c[m] = id
    <3>1. ~IsVid(t, n)
      BY <1>1, <1>9, <2>4 DEF IsVid
    <3>2. 1 \in 1..Len(c)
      BY <1>3, <2>4
    <3>3. s[c[1]] = "key"
      BY <2>4 DEF CacheHolds
    <3>4. \A id \in c[1]..Len(t) : id = n \/ (id \in c[1]..Len(s) /\ id \in 1..Len(s))
      BY <1>1, <1>3, <3>2
    <3> QED
      BY <1>1, <1>2, <1>3, <2>4, <3>1, <3>2, <3>3, <3>4 DEF CacheHolds
  <2>5. \A i, j \in 1..Len(c) : i < j => c[i] < c[j]
    BY DEF CacheHolds
  <2> QED
    BY <1>3, <1>4, <1>5, <1>6, <2>1, <2>2, <2>3, <2>4, <2>5 DEF CacheHolds, t, e
<1> QED
  BY <1>7, <1>8, <1>9

-----------------------------------------------------------------------------
(* A packet is sent to a player *)

\* A player that has everything up to n gets the packet n + 1.
LEMMA Relayed ==
  ASSUME NEW s \in Seq(Kinds), NEW n \in Nat, n + 1 \in 1..Len(s), NEW g \in Seq(1..Len(s)),
         Gapless(s, g), KeyFirst(s, g), Headed(s, g), UpToDate(s, g, n)
  PROVE  /\ Append(g, n + 1) \in Seq(1..Len(s))
         /\ Gapless(s, Append(g, n + 1))
         /\ KeyFirst(s, Append(g, n + 1))
         /\ Headed(s, Append(g, n + 1))
         /\ UpToDate(s, Append(g, n + 1), n + 1)
<1> DEFINE a == Append(g, n + 1)
           l == Len(g)
<1>1. /\ a \in Seq(1..Len(s)) /\ Len(a) = l + 1 /\ l \in Nat /\ a[l + 1] = n + 1
      /\ \A i \in 1..l : a[i] = g[i]
      /\ \A i \in 1..Len(a) : i \in 1..l \/ i = l + 1
  BY Appended
<1>2. \A i \in 1..l : g[i] \in 1..n
  BY DEF UpToDate
<1> HIDE DEF a, l
<1>3. Gapless(s, a)
  <2> SUFFICES ASSUME NEW i \in 1..Len(a), NEW j \in 1..Len(a), i < j,
                      IsVid(s, a[i]), IsVid(s, a[j])
               PROVE  /\ a[i] < a[j]
                      /\ \A id \in a[i]..a[j] : IsVid(s, id) => \E k \in i..j : a[k] = id
    BY DEF Gapless
  <2>1. i \in 1..l /\ a[i] = g[i]
    BY <1>1
  <2>2. CASE j \in 1..l
    <3>1. /\ g[i] < g[j]
          /\ \A id \in g[i]..g[j] : IsVid(s, id) => \E k \in i..j : g[k] = id
      BY <1>1, <2>1, <2>2 DEF Gapless, l
    <3>2. \A k \in i..j : a[k] = g[k]
      BY <1>1, <2>1, <2>2
    <3> QED
      BY <1>1, <2>1, <2>2, <3>1, <3>2
  <2>3. CASE j = l + 1
    <3>1. a[i] < a[j]
      BY <1>1, <1>2, <2>1, <2>3
    <3>2. ASSUME NEW id \in a[i]..a[j], IsVid(s, id)
          PROVE  \E k \in i..j : a[k] = id
      <4>1. CASE id = n + 1
        BY <1>1, <2>1, <2>3, <4>1
      <4>2. CASE id # n + 1
        <5>1. id \in g[i]..n
          BY <1>1, <1>2, <2>1, <2>3, <4>2
        <5>2. PICK k \in i..l : g[k] = id
          BY <2>1, <3>2, <5>1 DEF UpToDate, l
        <5> QED
          BY <1>1, <2>1, <2>3, <5>2
      <4> QED
        BY <4>1, <4>2
    <3> QED
      BY <3>1, <3>2
  <2> QED
    BY <1>1, <2>2, <2>3
<1>4. KeyFirst(s, a)
  <2> SUFFICES ASSUME NEW i \in 1..Len(a), IsVid(s, a[i]), \A j \in 1..(i - 1) : ~IsVid(s, a[j])
               PROVE  s[a[i]] = "key" \/ \A id \in 1..a[i] : s[id] # "key"
    BY DEF KeyFirst
  <2>1. CASE i \in 1..l
    <3>1. a[i] = g[i] /\ \A j \in 1..(i - 1) : a[j] = g[j]
      BY <1>1, <2>1
    <3> QED
      BY <2>1, <3>1 DEF KeyFirst, l
  <2>2. CASE i = l + 1
    <3>1. \A j \in 1..l : ~IsVid(s, g[j])
      BY <1>1, <2>2
    <3>2. \A id \in 1..n : s[id] # "key"
      BY <3>1 DEF UpToDate, l
    <3> QED
      BY <1>1, <2>2, <3>2
  <2> QED
    BY <1>1, <2>1, <2>2
<1>5. Headed(s, a)
  <2> SUFFICES ASSUME NEW i \in 1..Len(a), IsVid(s, a[i]), NEW h \in 1..a[i], s[h] = "header"
               PROVE  \E j \in 1..(i - 1) : a[j] >= h /\ s[a[j]] = "header"
    BY DEF Headed
  <2>1. CASE i \in 1..l
    <3>1. a[i] = g[i] /\ \A j \in 1..(i - 1) : a[j] = g[j]
      BY <1>1, <2>1
    <3>2. PICK j \in 1..(i - 1) : g[j] >= h /\ s[g[j]] = "header"
      BY <2>1, <3>1 DEF Headed, l
    <3> QED
      BY <3>1, <3>2
  <2>2. CASE i = l + 1
    <3>1. h # n + 1
      BY <1>1, <2>2 DEF IsVid
    <3>2. h \in 1..n
      BY <1>1, <2>2, <3>1
    <3>3. PICK j \in 1..l : g[j] >= h /\ s[g[j]] = "header"
      BY <3>2 DEF UpToDate, l
    <3> QED
      BY <1>1, <2>2, <3>3
  <2> QED
    BY <1>1, <2>1, <2>2
<1>6. UpToDate(s, a, n + 1)
  <2>1. ASSUME NEW i \in 1..Len(a) PROVE a[i] <= n + 1
    <3>1. CASE i \in 1..l
      <4>1. a[i] \in 1..n
        BY <1>1, <1>2, <3>1
      <4> QED
        BY <4>1
    <3>2. CASE i = l + 1
      BY <1>1, <3>2
    <3> QED
      BY <1>1, <3>1, <3>2
  <2>2. ASSUME NEW i \in 1..Len(a), IsVid(s, a[i]), NEW id \in a[i]..(n + 1), IsVid(s, id)
        PROVE  \E k \in i..Len(a) : a[k] = id
    <3>1. CASE id = n + 1
      BY <1>1, <3>1
    <3>2. CASE id # n + 1
      <4>1. i \in 1..l /\ id \in g[i]..n
        BY <1>1, <1>2, <2>2, <3>2
      <4>2. PICK k \in i..l : g[k] = id
        BY <1>1, <2>2, <4>1 DEF UpToDate, l
      <4> QED
        BY <1>1, <4>1, <4>2
    <3> QED
      BY <3>1, <3>2
  <2>3. (\A i \in 1..Len(a) : ~IsVid(s, a[i])) => \A id \in 1..(n + 1) : s[id] # "key"
    <3> SUFFICES ASSUME \A i \in 1..Len(a) : ~IsVid(s, a[i])
                 PROVE  \A id \in 1..(n + 1) : s[id] # "key"
      OBVIOUS
    <3>1. \A i \in 1..l : ~IsVid(s, g[i])
      BY <1>1
    <3>2. ~IsVid(s, n + 1)
      BY <1>1
    <3> QED
      BY <3>1, <3>2 DEF UpToDate, IsVid, l
  <2>4. ASSUME NEW h \in 1..(n + 1), s[h] = "header"
        PROVE  \E j \in 1..Len(a) : a[j] >= h /\ s[a[j]] = "header"
    <3>1. CASE h = n + 1
      BY <1>1, <2>4, <3>1
    <3>2. CASE h \in 1..n
      <4>1. PICK j \in 1..l : g[j] >= h /\ s[g[j]] = "header"
        BY <2>4, <3>2 DEF UpToDate, l
      <4> QED
        BY <1>1, <4>1
    <3> QED
      BY <3>1, <3>2
  <2> QED
    BY <2>1, <2>2, <2>3, <2>4 DEF UpToDate
<1> QED
  BY <1>1, <1>3, <1>4, <1>5, <1>6 DEF a

\* From the packet i on, the group has all video.
Whole(s, c, i) ==
  /\ \A id \in c[i]..Len(s) : IsVid(s, id) => \E k \in i..Len(c) : c[k] = id
  /\ \A j \in i..Len(c) : \A id \in c[i]..c[j] :
       IsVid(s, id) => \E k \in i..j : c[k] = id

LEMMA GroupWhole ==
  ASSUME NEW s, NEW h, NEW c, CacheHolds(s, h, c), Len(s) \in Nat
  PROVE  \A i \in 1..Len(c) : Whole(s, c, i)
<1> SUFFICES ASSUME NEW i \in 1..Len(c) PROVE Whole(s, c, i)
  OBVIOUS
<1>1. /\ c \in Seq(1..Len(s)) /\ Len(c) \in Nat /\ Len(s) \in Nat
      /\ \A j \in 1..Len(c) : c[j] \in 1..Len(s)
      /\ \A j, k \in 1..Len(c) : j < k => c[j] < c[k]
      /\ 1 \in 1..Len(c)
      /\ c # << >>
  BY DEF CacheHolds
<1>2. c[1] <= c[i]
  <2>1. i = 1 \/ 1 < i
    OBVIOUS
  <2> QED
    BY <1>1, <2>1
<1>3. ASSUME NEW id \in c[i]..Len(s), IsVid(s, id)
      PROVE  \E k \in i..Len(c) : c[k] = id
  <2>1. id \in c[1]..Len(s)
    BY <1>1, <1>2
  <2>2. PICK k \in 1..Len(c) : c[k] = id
    BY <1>1, <1>3, <2>1 DEF CacheHolds
  <2>3. ~(k < i)
    BY <1>1, <2>2
  <2> QED
    BY <2>2, <2>3
<1>4. ASSUME NEW j \in i..Len(c), NEW id \in c[i]..c[j], IsVid(s, id)
      PROVE  \E k \in i..j : c[k] = id
  <2>1. id \in c[i]..Len(s)
    BY <1>1
  <2>2. PICK k \in i..Len(c) : c[k] = id
    BY <1>3, <1>4, <2>1
  <2>3. ~(j < k)
    BY <1>1, <2>2
  <2> QED
    BY <2>2, <2>3
<1> QED
  BY <1>3, <1>4 DEF Whole

\* A player that is new gets the cache, o headers and the group, and has everything.
LEMMA HeaderAndGroup ==
  ASSUME NEW s \in Seq(Kinds), NEW h, NEW c, CacheHolds(s, h, c),
         NEW a \in Seq(1..Len(s)), NEW o \in {0, 1},
         Len(a) = o + Len(c),
         \A i \in 1..Len(c) : a[o + i] = c[i],
         h # 0 => a[1] = h /\ o = 1,
         h = 0 => o = 0
  PROVE  /\ a \in Seq(1..Len(s))
         /\ Gapless(s, a)
         /\ KeyFirst(s, a)
         /\ Headed(s, a)
         /\ UpToDate(s, a, Len(s))
<1>1. /\ c \in Seq(1..Len(s)) /\ Len(c) \in Nat /\ h \in 0..Len(s) /\ Len(s) \in Nat
      /\ \A i \in 1..Len(c) : c[i] \in 1..Len(s)
  BY DEF CacheHolds
<1>2. /\ Len(a) = o + Len(c) /\ \A i \in 1..Len(a) : a[i] \in 1..Len(s)
      /\ \A i \in 1..Len(c) : a[o + i] = c[i]
      /\ h # 0 => a[1] = h /\ o = 1
      /\ h = 0 => o = 0
  OBVIOUS
<1>3. o \in {0, 1}
  OBVIOUS
<1>4. \A i \in 1..Len(a) : /\ i - o \in 1..Len(c) => a[i] = c[i - o] /\ IsVid(s, a[i])
                           /\ i - o \notin 1..Len(c) => i = 1 /\ o = 1 /\ ~IsVid(s, a[i])
  <2> SUFFICES ASSUME NEW i \in 1..Len(a)
               PROVE  /\ i - o \in 1..Len(c) => a[i] = c[i - o] /\ IsVid(s, a[i])
                      /\ i - o \notin 1..Len(c) => i = 1 /\ o = 1 /\ ~IsVid(s, a[i])
    OBVIOUS
  <2>1. CASE i - o \in 1..Len(c)
    <3>1. a[o + (i - o)] = c[i - o]
      BY <1>2, <2>1
    <3>2. o + (i - o) = i
      BY <1>3
    <3>3. IsVid(s, c[i - o])
      BY <2>1 DEF CacheHolds
    <3> QED
      BY <2>1, <3>1, <3>2, <3>3
  <2>2. CASE i - o \notin 1..Len(c)
    <3>1. i = 1 /\ o = 1
      BY <1>1, <1>2, <1>3, <2>2
    <3>2. a[1] = h /\ h # 0
      BY <1>2, <3>1
    <3> QED
      BY <2>2, <3>1, <3>2 DEF CacheHolds, IsVid
  <2> QED
    BY <2>1, <2>2
<1>5. /\ \A i, j \in 1..Len(c) : i < j => c[i] < c[j]
      /\ \A i \in 1..Len(c) : c[i] \in Int
  <2>1. \A i, j \in 1..Len(c) : i < j => c[i] < c[j]
    BY DEF CacheHolds
  <2>2. \A i \in 1..Len(c) : c[i] \in Int
    BY <1>1
  <2> QED
    BY <2>1, <2>2
<1>6. \A i \in 1..Len(c) : Whole(s, c, i)
  BY <1>1, GroupWhole
<1>7. Gapless(s, a)
  <2> SUFFICES ASSUME NEW i \in 1..Len(a), NEW j \in 1..Len(a), i < j,
                      IsVid(s, a[i]), IsVid(s, a[j])
               PROVE  /\ a[i] < a[j]
                      /\ \A id \in a[i]..a[j] : IsVid(s, id) => \E k \in i..j : a[k] = id
    BY DEF Gapless
  <2> DEFINE x == i - o
             y == j - o
  <2>1. i = o + x /\ j = o + y
    BY <1>3
  <2>2. x \in 1..Len(c) /\ y \in 1..Len(c) /\ a[i] = c[x] /\ a[j] = c[y] /\ x < y
    BY <1>3, <1>4
  <2> HIDE DEF x, y
  <2>3. a[i] < a[j]
    BY <1>5, <2>2
  <2>4. ASSUME NEW id \in a[i]..a[j], IsVid(s, id) PROVE \E k \in i..j : a[k] = id
    <3>1. y \in x..Len(c)
      BY <1>1, <2>2
    <3>2. PICK m \in x..y : c[m] = id
      <4>1. id \in c[x]..c[y]
        BY <2>2
      <4> QED
        BY <1>6, <2>2, <2>4, <3>1, <4>1, Zenon DEF Whole
    <3>3. m \in 1..Len(c)
      BY <1>1, <2>2
    <3>4. a[o + m] = c[m]
      BY <1>2, <3>3, Zenon
    <3>5. o + m \in (o + x)..(o + y)
      BY <1>3, <2>2
    <3> QED
      BY <2>1, <3>2, <3>4, <3>5, Zenon
  <2> QED
    BY <2>3, <2>4
<1>8. KeyFirst(s, a)
  <2> SUFFICES ASSUME NEW i \in 1..Len(a), IsVid(s, a[i]), \A j \in 1..(i - 1) : ~IsVid(s, a[j])
               PROVE  s[a[i]] = "key"
    BY DEF KeyFirst
  <2>1. i - o \in 1..Len(c) /\ a[i] = c[i - o]
    BY <1>4
  <2>2. i - o = 1
    <3> SUFFICES ASSUME i - o # 1 PROVE FALSE
      OBVIOUS
    <3>1. i - 1 \in 1..(i - 1) /\ i - 1 \in 1..Len(a) /\ (i - 1) - o \in 1..Len(c)
      BY <1>3, <2>1
    <3> QED
      BY <1>4, <3>1
  <2> QED
    BY <2>1, <2>2 DEF CacheHolds
<1>9. \A x \in 1..Len(s) : s[x] = "header" =>
        h # 0 /\ 1 \in 1..Len(a) /\ a[1] >= x /\ s[a[1]] = "header"
  BY <1>1, <1>2 DEF CacheHolds
<1>10. Headed(s, a)
  <2> SUFFICES ASSUME NEW i \in 1..Len(a), IsVid(s, a[i]), NEW x \in 1..a[i], s[x] = "header"
               PROVE  \E j \in 1..(i - 1) : a[j] >= x /\ s[a[j]] = "header"
    BY DEF Headed
  <2>1. x \in 1..Len(s)
    BY <1>1, <1>2
  <2>2. h # 0 /\ a[1] >= x /\ s[a[1]] = "header"
    BY <1>9, <2>1
  <2>3. i # 1
    BY <2>2 DEF IsVid
  <2> QED
    BY <2>2, <2>3
<1>11. UpToDate(s, a, Len(s))
  <2>1. \A i \in 1..Len(a) : a[i] <= Len(s)
    BY <1>1, <1>2
  <2>2. ASSUME NEW i \in 1..Len(a), IsVid(s, a[i]), NEW id \in a[i]..Len(s), IsVid(s, id)
        PROVE  \E k \in i..Len(a) : a[k] = id
    <3>1. i - o \in 1..Len(c) /\ a[i] = c[i - o]
      BY <1>4, <2>2
    <3>2. PICK m \in (i - o)..Len(c) : c[m] = id
      BY <1>6, <2>2, <3>1 DEF Whole
    <3>3. m + o \in i..Len(a) /\ a[o + m] = c[m] /\ o + m = m + o
      BY <1>1, <1>2, <1>3, <3>1, <3>2
    <3> QED
      BY <3>2, <3>3
  <2>3. (\A i \in 1..Len(a) : ~IsVid(s, a[i])) => \A id \in 1..Len(s) : s[id] # "key"
    <3> SUFFICES ASSUME \A i \in 1..Len(a) : ~IsVid(s, a[i])
                 PROVE  c = << >>
      BY DEF CacheHolds
    <3>1. Len(c) = 0
      <4> SUFFICES ASSUME Len(c) # 0 PROVE FALSE
        OBVIOUS
      <4>1. o + 1 \in 1..Len(a) /\ (o + 1) - o \in 1..Len(c)
        BY <1>1, <1>2, <1>3
      <4> QED
        BY <1>4, <4>1
    <3> QED
      BY <1>1, <3>1
  <2> QED
    BY <1>9, <2>1, <2>2, <2>3 DEF UpToDate
<1> QED
  BY <1>7, <1>8, <1>10, <1>11

LEMMA CacheSent ==
  ASSUME NEW s \in Seq(Kinds), NEW h, NEW c, CacheHolds(s, h, c)
  PROVE  LET a == (IF h = 0 THEN << >> ELSE <<h>>) \o c IN
         /\ a \in Seq(1..Len(s))
         /\ Gapless(s, a)
         /\ KeyFirst(s, a)
         /\ Headed(s, a)
         /\ UpToDate(s, a, Len(s))
<1> DEFINE a == (IF h = 0 THEN << >> ELSE <<h>>) \o c
           o == IF h = 0 THEN 0 ELSE 1
<1>1. /\ c \in Seq(1..Len(s)) /\ h \in 0..Len(s) /\ Len(s) \in Nat
  BY DEF CacheHolds
<1>2. /\ a \in Seq(1..Len(s)) /\ Len(a) = o + Len(c)
      /\ \A i \in 1..Len(c) : a[o + i] = c[i]
      /\ h # 0 => a[1] = h
  <2>1. CASE h = 0
    BY <1>1, <2>1
  <2>2. CASE h # 0
    <3>1. <<h>> \in Seq(1..Len(s)) /\ Len(<<h>>) = 1 /\ <<h>>[1] = h
      BY <1>1, <2>2, SeqOfOne
    <3>2. a = <<h>> \o c /\ o = 1
      BY <2>2
    <3> HIDE DEF a, o
    <3> QED
      BY <1>1, <3>1, <3>2
  <2> QED
    BY <2>1, <2>2
<1>3. o \in {0, 1} /\ (h # 0 => o = 1) /\ (h = 0 => o = 0)
  OBVIOUS
<1> HIDE DEF a, o
<1>4. Gapless(s, a) /\ KeyFirst(s, a) /\ Headed(s, a) /\ UpToDate(s, a, Len(s))
  BY <1>2, <1>3, HeaderAndGroup
<1> QED
  BY <1>2, <1>4 DEF a

-----------------------------------------------------------------------------
(* The inductive invariant *)

Relaying == relay \in {"reading", "sending"}

\* While the stream runs, the cache holds what it should.
CacheInv == Relaying => CacheHolds(sent, header, gop)

\* Before it runs nothing is published, and nothing sent.
Before == relay \in {"new", "stored"} => sent = << >> /\ header = 0 /\ gop = << >> /\ init = {}

\* The position up to which a player has everything: the Range has not visited
\* those in todo with the last packet.
UpTo(w) == IF relay = "sending" /\ w \in todo THEN Len(sent) - 1 ELSE Len(sent)

Feed(w) ==
  /\ got[w] \in Seq(1..Len(sent))
  /\ Gapless(sent, got[w])
  /\ KeyFirst(sent, got[w])
  /\ Headed(sent, got[w])

\* A player is attached once, and gets the cache and every packet after it as
\* long as it is attached.
Joined(w) ==
  /\ w \notin init => got[w] = << >>
  /\ w \in ws \union init => player[w] = "added"
  /\ Relaying /\ w \in init \intersect ws => UpToDate(sent, got[w], UpTo(w))

IInv ==
  /\ TypeOK
  /\ CacheInv
  /\ Before
  /\ relay = "sending" => Len(sent) >= 1
  /\ \A w \in Players : Feed(w) /\ Joined(w)

LEMMA EmptyFeed ==
  ASSUME NEW s \in Seq(Kinds)
  PROVE  /\ << >> \in Seq(1..Len(s))
         /\ Gapless(s, << >>) /\ KeyFirst(s, << >>) /\ Headed(s, << >>)
<1> QED
  BY DEF Gapless, KeyFirst, Headed

LEMMA EmptyCache == CacheHolds(<< >>, 0, << >>)
<1> QED
  BY DEF CacheHolds

LEMMA InitInv == Init => IInv
<1> SUFFICES ASSUME Init PROVE IInv
  OBVIOUS
<1>1. TypeOK
  <2>1. /\ << >> \in Seq(Kinds) /\ << >> \in Seq(1..MaxPackets) /\ Len(<< >>) = 0
        /\ MaxPackets \in Nat /\ GopCap \in Nat
    BY RelayAssumption
  <2>2. /\ player \in [Players -> {"new", "found", "missed", "added", "orphan"}]
        /\ at \in [Players -> Streams \union {None}]
        /\ got \in [Players -> Seq(1..MaxPackets)]
    BY <2>1 DEF Init
  <2>3. /\ sent \in Seq(Kinds) /\ Len(sent) <= MaxPackets /\ header \in 0..MaxPackets
        /\ gop \in Seq(1..MaxPackets) /\ Len(gop) <= GopCap
    BY <2>1 DEF Init
  <2>4. ws \union stray \union init \union todo \union closed \union unseen \subseteq Players
    BY DEF Init
  <2>5. /\ {entry, check} \subseteq Streams \union {None} /\ {conn, counted} \subseteq BOOLEAN
        /\ relay \in {"new", "stored", "reading", "sending", "closing", "ended"}
    BY DEF Init
  <2> QED
    BY <2>2, <2>3, <2>4, <2>5 DEF TypeOK
<1>2. CacheInv /\ Before /\ relay # "sending"
  BY DEF Init, CacheInv, Before, Relaying
<1>3. \A w \in Players : Feed(w) /\ Joined(w)
  <2>1. sent \in Seq(Kinds)
    BY <1>1 DEF TypeOK
  <2>2. \A w \in Players : got[w] = << >> /\ w \notin ws \union init
    BY DEF Init
  <2> QED
    BY <2>1, <2>2, EmptyFeed DEF Feed, Joined
<1> QED
  BY <1>1, <1>2, <1>3 DEF IInv

\* A step that publishes and sends nothing, and does not make a player one that
\* should have more.
LEMMA NothingSent ==
  ASSUME IInv, TypeOK', UNCHANGED <<sent, header, gop, init, got>>,
         relay' \in {"new", "stored"} => relay \in {"new", "stored"},
         Relaying' => Relaying \/ relay = "stored",
         relay' = "sending" => relay = "sending",
         \A w \in Players : w \in ws' \union init => player'[w] = "added",
         \A w \in Players :
           Relaying' /\ Relaying /\ w \in init \intersect ws' => w \in ws /\ UpTo(w)' = UpTo(w)
  PROVE  IInv'
<1>1. CacheInv'
  BY EmptyCache DEF IInv, CacheInv, Before
<1>2. Before' /\ (relay' = "sending" => Len(sent') >= 1)
  BY DEF IInv, Before
<1>3. ASSUME NEW w \in Players PROVE Feed(w)'
  BY <1>3 DEF IInv, Feed
<1>4. ASSUME NEW w \in Players PROVE Joined(w)'
  <2>1. w \notin init' => got'[w] = << >>
    BY DEF IInv, Joined
  <2>2. w \in (ws \union init)' => player'[w] = "added"
    OBVIOUS
  <2>3. ASSUME Relaying', w \in init, w \in ws' PROVE UpToDate(sent', got'[w], UpTo(w)')
    <3>1. Relaying
      BY <2>3 DEF IInv, Before
    <3>2. w \in ws /\ UpTo(w)' = UpTo(w)
      BY <2>3, <3>1
    <3> QED
      BY <2>3, <3>1, <3>2 DEF IInv, Joined
  <2> QED
    BY <2>1, <2>2, <2>3 DEF Joined
<1> QED
  BY <1>1, <1>2, <1>3, <1>4 DEF IInv

\* The steps that send nothing keep the types.
LEMMA NothingSentType ==
  ASSUME TypeOK, UNCHANGED <<sent, header, gop, init, got>>,
         {entry', check'} \subseteq Streams \union {None},
         relay' \in {"new", "stored", "reading", "sending", "closing", "ended"},
         {conn', counted'} \subseteq BOOLEAN,
         player' \in [Players -> {"new", "found", "missed", "added", "orphan"}],
         at' \in [Players -> Streams \union {None}], stray' \subseteq Players,
         ws' \subseteq Players, todo' \subseteq Players, closed' \subseteq Players,
         unseen' \subseteq Players
  PROVE  TypeOK'
<1> QED
  BY DEF TypeOK

\* The publisher's steps but reading and sending.
LEMMA PublisherKeeps ==
  ASSUME IInv, \/ StoreStream \/ TransStart \/ ReadFails \/ NextPacket \/ TransEnds
               \/ \E w \in Players : CloseInter(w)
  PROVE  IInv'
<1>1. /\ UNCHANGED <<sent, header, gop, init, got, player, at, stray, conn, check, counted, unseen>>
      /\ ws' \subseteq ws
      /\ todo' \subseteq ws \union todo
      /\ closed' \subseteq closed \union ws
      /\ entry' \in {entry, Published}
      /\ \/ relay = "new" /\ relay' = "stored"
         \/ relay = "stored" /\ relay' = "reading"
         \/ relay = "reading" /\ relay' = "closing"
         \/ relay = "sending" /\ relay' = "reading" /\ todo \intersect ws = {}
         \/ relay = "closing" /\ relay' \in {"closing", "ended"}
  BY DEF StoreStream, TransStart, ReadFails, NextPacket, TransEnds, CloseInter, cache, others, checks
<1>2. TypeOK'
  <2>1. TypeOK
    BY DEF IInv
  <2>2. /\ ws' \subseteq Players /\ todo' \subseteq Players /\ closed' \subseteq Players
        /\ unseen' \subseteq Players
    BY <1>1, <2>1 DEF TypeOK
  <2>3. /\ player' \in [Players -> {"new", "found", "missed", "added", "orphan"}]
        /\ at' \in [Players -> Streams \union {None}] /\ stray' \subseteq Players
        /\ {conn', counted'} \subseteq BOOLEAN
        /\ {entry', check'} \subseteq Streams \union {None}
    BY <1>1, <2>1 DEF TypeOK, Streams
  <2>4. relay' \in {"new", "stored", "reading", "sending", "closing", "ended"}
    BY <1>1
  <2> QED
    BY <1>1, <2>1, <2>2, <2>3, <2>4, NothingSentType
<1>3. \A w \in Players : w \in ws' \union init => player'[w] = "added"
  BY <1>1 DEF IInv, Joined
<1>4. \A w \in Players :
        Relaying' /\ Relaying /\ w \in init \intersect ws' => w \in ws /\ UpTo(w)' = UpTo(w)
  BY <1>1 DEF Relaying, UpTo
<1> QED
  BY <1>1, <1>2, <1>3, <1>4, NothingSent DEF Relaying

\* A key frame, a header, another frame or audio is read and cached.
LEMMA ReadKeeps ==
  ASSUME IInv, Read
  PROVE  IInv'
<1> DEFINE n == Len(sent) + 1
<1>0. PICK k \in Kinds :
        /\ sent' = Append(sent, k)
        /\ header' = IF k = "header" THEN n ELSE header
        /\ IF GopFull(k)
           THEN relay' = "closing" /\ UNCHANGED gop
           ELSE relay' = "sending" /\ gop' = NewGop(n, k)
  BY DEF Read
<1>1. /\ relay = "reading" /\ todo' = ws /\ Len(sent) < MaxPackets
      /\ UNCHANGED <<entry, conn, player, at, stray, ws, init, closed, got, check, counted, unseen>>
  BY DEF Read, others, checks
<1>2. /\ sent \in Seq(Kinds) /\ Len(sent) \in Nat /\ MaxPackets \in Nat /\ GopCap \in Nat \ {0}
      /\ sent' \in Seq(Kinds) /\ Len(sent') = n /\ n \in 1..MaxPackets
      /\ gop \in Seq(1..MaxPackets) /\ Len(gop) \in Nat
  BY <1>0, <1>1, Appended, RelayAssumption DEF IInv, TypeOK
<1>3. CacheHolds(sent, header, gop)
  BY <1>1 DEF IInv, CacheInv, Relaying
<1>4. relay' = "sending" =>
        gop' = IF k = "key" THEN <<n>>
               ELSE IF k = "frame" /\ gop # << >> THEN Append(gop, n) ELSE gop
  BY <1>0 DEF NewGop, Kinds
<1>5. gop' \in Seq(1..MaxPackets) /\ Len(gop') <= GopCap
  <2>1. CASE gop' = gop
    BY <2>1 DEF IInv, TypeOK
  <2>2. CASE gop' = <<n>>
    BY <1>2, <2>2, SeqOfOne
  <2>3. CASE gop' = Append(gop, n) /\ k = "frame" /\ relay' = "sending"
    <3>1. Len(gop) < GopCap
      BY <1>0, <1>2, <2>3 DEF GopFull
    <3> QED
      BY <1>2, <2>3, <3>1, Appended
  <2>4. relay' = "closing" \/ relay' = "sending"
    BY <1>0
  <2>5. relay' = "closing" => gop' = gop
    BY <1>0
  <2> QED
    BY <1>4, <2>1, <2>2, <2>3, <2>4, <2>5
<1>6. TypeOK'
  <2>1. header' \in 0..MaxPackets
    BY <1>0, <1>2 DEF IInv, TypeOK
  <2>2. relay' \in {"closing", "sending"}
    BY <1>0
  <2>3. (ws \union stray \union init \union todo \union closed \union unseen)' \subseteq Players
    BY <1>1 DEF IInv, TypeOK
  <2> QED
    BY <1>1, <1>2, <1>5, <2>1, <2>2, <2>3 DEF IInv, TypeOK
<1>7. CacheInv'
  <2> SUFFICES ASSUME relay' = "sending" PROVE CacheHolds(sent', header', gop')
    BY <1>0 DEF CacheInv, Relaying
  <2> DEFINE d == IF k = "key" THEN <<Len(sent) + 1>>
                  ELSE IF k = "frame" /\ gop # << >> THEN Append(gop, Len(sent) + 1) ELSE gop
  <2>1. CacheHolds(Append(sent, k), IF k = "header" THEN Len(sent) + 1 ELSE header, d)
    <3>1. d = IF k = "key" THEN <<Len(sent) + 1>>
              ELSE IF k = "frame" /\ gop # << >> THEN Append(gop, Len(sent) + 1) ELSE gop
      OBVIOUS
    <3> HIDE DEF d
    <3> QED
      BY <1>2, <1>3, <3>1, CachePublished
  <2>2. gop' = d
    BY <1>4
  <2> HIDE DEF d
  <2> QED
    BY <1>0, <2>1, <2>2
<1>8. Before' /\ (relay' = "sending" => Len(sent') >= 1)
  BY <1>0, <1>2 DEF Before
<1>9. ASSUME NEW w \in Players PROVE Feed(w)' /\ Joined(w)'
  <2>1. /\ got[w] \in Seq(1..Len(sent)) /\ Gapless(sent, got[w]) /\ KeyFirst(sent, got[w])
        /\ Headed(sent, got[w])
    BY <1>9 DEF IInv, Feed
  <2>2. Feed(w)'
    BY <1>0, <1>1, <1>2, <2>1, PublishedKeeps DEF Feed
  <2>3. ASSUME relay' = "sending", w \in init, w \in ws
        PROVE  UpToDate(sent', got[w], UpTo(w)')
    <3>1. UpTo(w)' = Len(sent) /\ UpTo(w) = Len(sent)
      BY <1>1, <1>2, <2>3 DEF UpTo
    <3>2. UpToDate(sent, got[w], Len(sent))
      BY <1>1, <1>9, <2>3, <3>1 DEF IInv, Joined, Relaying
    <3> QED
      BY <1>0, <1>2, <2>1, <3>1, <3>2, PublishedKeeps
  <2>4. Joined(w)'
    BY <1>0, <1>1, <1>9, <2>3 DEF IInv, Joined, Relaying
  <2> QED
    BY <2>2, <2>4
<1> QED
  BY <1>6, <1>7, <1>8, <1>9 DEF IInv

\* Range visits a player: it is removed, or gets the packet, or the cache.
LEMMA VisitKeeps ==
  ASSUME IInv, NEW w \in Players, Visit(w)
  PROVE  IInv'
<1> DEFINE n == Len(sent)
<1>1. /\ relay = "sending" /\ w \in todo /\ w \in ws /\ todo' = todo \ {w}
      /\ UNCHANGED <<entry, relay, conn, sent, header, gop, player, at, stray, closed>>
      /\ UNCHANGED <<check, counted, unseen>>
  BY DEF Visit, cache, others, checks
<1>2. TypeOK /\ CacheHolds(sent, header, gop) /\ player[w] = "added"
  BY <1>1 DEF IInv, CacheInv, Relaying, Joined
<1>3. CASE w \in closed
  <2>1. ws' = ws \ {w} /\ UNCHANGED <<init, got>>
    BY <1>3 DEF Visit
  <2>2. TypeOK'
    BY <1>1, <1>2, <2>1 DEF TypeOK
  <2>3. \A v \in Players : v \in ws' \union init => player'[v] = "added"
    BY <1>1, <2>1 DEF IInv, Joined
  <2>4. \A v \in Players : v \in ws' => v \in ws /\ UpTo(v)' = UpTo(v)
    BY <1>1, <2>1 DEF UpTo
  <2> QED
    BY <1>1, <2>1, <2>2, <2>3, <2>4, NothingSent DEF Relaying
<1>4. CASE w \notin closed
  <2>1. /\ got' = [got EXCEPT ![w] = @ \o IF w \in init THEN <<n>> ELSE Cached]
        /\ init' = init \union {w}
        /\ ws' = ws
    BY <1>4 DEF Visit, Send
  <2>2. /\ sent \in Seq(Kinds) /\ n \in Nat /\ n >= 1 /\ n <= MaxPackets /\ MaxPackets \in Nat
        /\ got \in [Players -> Seq(1..MaxPackets)]
    BY <1>1, <1>2, RelayAssumption DEF IInv, TypeOK
  <2>3. /\ got[w] \in Seq(1..n) /\ Gapless(sent, got[w]) /\ KeyFirst(sent, got[w])
        /\ Headed(sent, got[w])
    BY DEF IInv, Feed
  <2> DEFINE g == got[w] \o (IF w \in init THEN <<n>> ELSE Cached)
  <2>4. /\ g \in Seq(1..n) /\ Gapless(sent, g) /\ KeyFirst(sent, g) /\ Headed(sent, g)
        /\ UpToDate(sent, g, n)
    <3>1. CASE w \in init
      <4>1. UpToDate(sent, got[w], n - 1)
        BY <1>1, <2>2, <3>1 DEF IInv, Joined, Relaying, UpTo
      <4>2. g = Append(got[w], (n - 1) + 1)
        BY <2>2, <2>3, <3>1
      <4>3. n - 1 \in Nat /\ (n - 1) + 1 \in 1..Len(sent) /\ (n - 1) + 1 = n
        BY <2>2
      <4> HIDE DEF g, n
      <4>4. /\ Append(got[w], (n - 1) + 1) \in Seq(1..Len(sent))
            /\ Gapless(sent, Append(got[w], (n - 1) + 1))
            /\ KeyFirst(sent, Append(got[w], (n - 1) + 1))
            /\ Headed(sent, Append(got[w], (n - 1) + 1))
            /\ UpToDate(sent, Append(got[w], (n - 1) + 1), (n - 1) + 1)
        BY <2>2, <2>3, <4>1, <4>3, Relayed DEF n
      <4> QED
        BY <4>2, <4>3, <4>4 DEF n
    <3>2. CASE w \notin init
      <4>1. got[w] = << >>
        BY <3>2 DEF IInv, Joined
      <4>2. /\ Cached \in Seq(1..n) /\ Gapless(sent, Cached) /\ KeyFirst(sent, Cached)
            /\ Headed(sent, Cached) /\ UpToDate(sent, Cached, n)
        <5>1. /\ Cached \in Seq(1..Len(sent)) /\ Gapless(sent, Cached)
              /\ KeyFirst(sent, Cached) /\ Headed(sent, Cached)
              /\ UpToDate(sent, Cached, Len(sent))
          BY <1>2, <2>2, CacheSent, Zenon DEF Cached
        <5> QED
          BY <5>1
      <4>3. g = Cached
        BY <3>2, <4>1, <4>2
      <4> QED
        BY <4>2, <4>3
    <3> QED
      BY <3>1, <3>2
  <2>5. got'[w] = g /\ \A v \in Players : v # w => got'[v] = got[v]
    BY <2>1, <2>2
  <2>6. got' = [got EXCEPT ![w] = g]
    BY <2>1, <2>2
  <2> HIDE DEF g
  <2>7. TypeOK'
    <3>1. g \in Seq(1..MaxPackets)
      <4>1. 1..n \subseteq 1..MaxPackets
        BY <2>2
      <4> QED
        BY <2>4, <4>1, SeqOfMore
    <3>2. got' \in [Players -> Seq(1..MaxPackets)]
      BY <2>2, <2>6, <3>1
    <3>3. (ws \union stray \union init \union todo \union closed \union unseen)' \subseteq Players
      BY <1>1, <1>2, <2>1 DEF TypeOK
    <3> QED
      BY <1>1, <1>2, <3>2, <3>3 DEF TypeOK
  <2>8. CacheInv' /\ Before' /\ (relay' = "sending" => Len(sent') >= 1)
    BY <1>1 DEF IInv, CacheInv, Before, Relaying
  <2>9. ASSUME NEW v \in Players PROVE Feed(v)' /\ Joined(v)'
    <3>1. CASE v = w
      <4>1. UpTo(w)' = n
        BY <1>1 DEF UpTo
      <4> QED
        BY <1>1, <1>2, <2>1, <2>4, <2>5, <3>1, <4>1 DEF Feed, Joined
    <3>2. CASE v # w
      <4>1. UpTo(v)' = UpTo(v)
        BY <1>1, <3>2 DEF UpTo
      <4> QED
        BY <1>1, <2>1, <2>5, <2>9, <3>2, <4>1 DEF IInv, Feed, Joined, Relaying
    <3> QED
      BY <3>1, <3>2
  <2> QED
    BY <2>7, <2>8, <2>9 DEF IInv
<1> QED
  BY <1>3, <1>4

\* Players join and leave, and CheckAlive looks for what is dead.
LEMMA PlayersKeep ==
  ASSUME IInv, \/ Disconnect \/ Check
               \/ \E w \in Players : Load(w) \/ StoreEmpty(w) \/ AddWriter(w) \/ Leave(w)
  PROVE  IInv'
<1>1. TypeOK
  BY DEF IInv
<1>2. CASE Disconnect \/ CheckReader \/ CheckEnds
  <2>1. /\ UNCHANGED <<sent, header, gop, init, got, relay, player, at, stray, ws, todo, closed>>
        /\ {conn', counted'} \subseteq BOOLEAN /\ unseen' \subseteq Players
        /\ {entry', check'} \subseteq Streams \union {None}
    <3>1. CASE Disconnect
      BY <1>1, <3>1 DEF Disconnect, cache, others, checks, TypeOK
    <3>2. CASE CheckReader
      <4>1. /\ UNCHANGED <<sent, header, gop, init, got, relay, player, at, stray, ws, todo, closed>>
            /\ entry' = entry /\ unseen' = Members(entry) /\ check' = entry
        BY <3>2 DEF CheckReader, cache, others
      <4>2. conn' \in {conn, FALSE} /\ counted' \in {entry = Published /\ IsStart, FALSE}
        BY <3>2 DEF CheckReader
      <4>3. (entry = Published /\ IsStart) \in BOOLEAN
        OBVIOUS
      <4>4. Members(entry) \subseteq ws \union stray
        BY DEF Members
      <4> QED
        BY <1>1, <4>1, <4>2, <4>3, <4>4 DEF TypeOK
    <3>3. CASE CheckEnds
      BY <1>1, <3>3 DEF CheckEnds, cache, others, TypeOK
    <3> QED
      BY <1>2, <3>1, <3>2, <3>3
  <2>2. TypeOK'
    BY <1>1, <2>1 DEF TypeOK
  <2> QED
    BY <2>1, <2>2, NothingSent DEF IInv, Joined, Relaying, UpTo
<1>3. ASSUME NEW w \in Players, CheckAlivePlayer(w) \/ CheckDeadPlayer(w) \/ Leave(w)
      PROVE  IInv'
  <2>1. /\ UNCHANGED <<sent, header, gop, init, got, relay, player, at, todo, conn, entry, check>>
        /\ ws' \subseteq ws /\ stray' \subseteq stray
        /\ counted' \in BOOLEAN /\ unseen' \subseteq Players /\ closed' \subseteq Players
    BY <1>1, <1>3 DEF CheckAlivePlayer, CheckDeadPlayer, Leave, cache, others, checks, TypeOK
  <2>2. TypeOK'
    BY <1>1, <2>1 DEF TypeOK
  <2> QED
    BY <2>1, <2>2, NothingSent DEF IInv, Joined, Relaying, UpTo
<1>4. ASSUME NEW w \in Players, Load(w) \/ StoreEmpty(w) PROVE IInv'
  <2>1. /\ UNCHANGED <<sent, header, gop, init, got, relay, todo, conn, check, counted, unseen,
                       ws, stray, closed>>
        /\ player[w] \in {"new", "missed"}
        /\ \E p \in {"found", "missed", "orphan"} : player' = [player EXCEPT ![w] = p]
        /\ entry' \in {entry, w}
        /\ at' \in {at, [at EXCEPT ![w] = entry]}
    BY <1>4 DEF Load, StoreEmpty, cache, others, checks
  <2>2. TypeOK'
    <3>1. player' \in [Players -> {"new", "found", "missed", "added", "orphan"}]
      BY <1>1, <2>1 DEF TypeOK
    <3>2. at' \in [Players -> Streams \union {None}]
      BY <1>1, <2>1 DEF TypeOK
    <3>3. {entry', check'} \subseteq Streams \union {None}
      BY <1>1, <2>1 DEF TypeOK, Streams
    <3> QED
      BY <1>1, <2>1, <3>1, <3>2, <3>3 DEF TypeOK
  <2>3. w \notin ws \union init
    BY <2>1 DEF IInv, Joined
  <2>4. \A v \in Players : v \in ws \union init => player'[v] = "added"
    BY <1>1, <2>1, <2>3 DEF IInv, Joined, TypeOK
  <2> QED
    BY <2>1, <2>2, <2>4, NothingSent DEF Relaying, UpTo
<1>5. ASSUME NEW w \in Players, AddWriter(w) PROVE IInv'
  <2>1. /\ UNCHANGED <<sent, header, gop, init, got, relay, conn, check, counted, entry, closed, at>>
        /\ player[w] = "found"
        /\ player' = [player EXCEPT ![w] = "added"]
        /\ ws' \in {ws, ws \union {w}} /\ stray' \in {stray, stray \union {w}}
        /\ todo' \in {todo, todo \union {w}}
        /\ unseen' \in {unseen, unseen \union {w}}
    BY <1>5 DEF AddWriter, cache
  <2>2. TypeOK'
    BY <1>1, <2>1 DEF TypeOK
  <2>3. w \notin init
    BY <2>1 DEF IInv, Joined
  <2>4. \A v \in Players : v \in ws' \union init => player'[v] = "added"
    BY <1>1, <2>1 DEF IInv, Joined, TypeOK
  <2>5. \A v \in Players : v # w => UpTo(v)' = UpTo(v)
    BY <2>1 DEF UpTo
  <2> QED
    BY <2>1, <2>2, <2>3, <2>4, <2>5, NothingSent DEF Relaying
<1> QED
  BY <1>2, <1>3, <1>4, <1>5 DEF Check

\* Nothing happens.
LEMMA StutterKeeps ==
  ASSUME IInv, UNCHANGED vars
  PROVE  IInv'
<1>1. TypeOK'
  BY DEF IInv, TypeOK, vars, cache, others, checks
<1> QED
  BY <1>1, NothingSent DEF IInv, Joined, Relaying, UpTo, vars, cache, checks

LEMMA StepInv ==
  ASSUME IInv, [Next]_vars
  PROVE  IInv'
<1> QED
  BY PublisherKeeps, ReadKeeps, VisitKeeps, PlayersKeep, StutterKeeps DEF Next, Publish

-----------------------------------------------------------------------------
(* Theorems *)

LEMMA Invariant == Spec => []IInv
<1> QED
  BY InitInv, StepInv, PTL DEF Spec, SafeSpec

\* Every variable keeps its type: the cached group never grows past its limit.
THEOREM TypeCorrect == Spec => []TypeOK
<1>1. IInv => TypeOK
  BY DEF IInv
<1> QED
  BY <1>1, Invariant, PTL

\* Whenever a player joins, the video it is sent is gapless and in order.
THEOREM FeedsHaveNoGap == Spec => []NoGap
<1>1. IInv => NoGap
  BY DEF IInv, Feed, Gapless, NoGap, IsVid, IsVideo
<1> QED
  BY <1>1, Invariant, PTL

\* And begins with a key frame if there was one.
THEOREM FeedsBeginWithKey == Spec => []BeginsWithKey
<1>1. IInv => BeginsWithKey
  BY DEF IInv, Feed, KeyFirst, BeginsWithKey, IsVid, IsVideo
<1> QED
  BY <1>1, Invariant, PTL

\* And no video is sent before the last header published before it.
THEOREM HeadersComeFirst == Spec => []HeaderFirst
<1>1. IInv => HeaderFirst
  BY DEF IInv, Feed, Headed, HeaderFirst, IsVid, IsVideo
<1> QED
  BY <1>1, Invariant, PTL

=============================================================================
