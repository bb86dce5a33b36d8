--------------------------- MODULE MenuLinkProofs ---------------------------
(***************************************************************************)
(* Proofs about MenuLink, for any number of keys, attempts and splits,     *)
(* turns of any length, and any word for a header.                         *)
(*                                                                         *)
(* What the parser finds in a ring is proved by induction over its words.  *)
(* The library's induction theorems take a predicate, so the induction is  *)
(* over the set of the numbers that have a property.                       *)
(***************************************************************************)
EXTENDS MenuLink, FiniteSetTheorems, SequenceTheorems, WellFoundedInduction, TLAPS

-----------------------------------------------------------------------------
(* What can be on the wire: keys that were typed and the resolution, with  *)
(* tokens that have been in the seed slot.                                 *)
Commands(c) ==
  {<<t, k>> : t \in 0 .. c.seed, k \in 1 .. c.typed}
    \cup {<<t, MenuRez, c.rez>> : t \in 0 .. c.seed}
Numbers(c) ==
  {Header, CommandId, 2, 3, MenuRez, c.rez} \cup 0 .. c.seed \cup 1 .. c.typed
Words(c) ==
  {Word(n) : n \in Numbers(c)} \cup {Checksum(Body(q)) : q \in Commands(c)}

Now == [seed |-> seed, typed |-> typed, rez |-> screenRez]

(* The command being sent.                                                 *)
Sending == stPc \in {"send", "wait"}
Parameter == IF typed = 0 THEN <<MenuRez, screenRez>> ELSE <<typed>>
Current == IF typed = 0 THEN <<request, MenuRez, screenRez>> ELSE <<request, typed>>
Last(words) == words[Len(words)]

WireType ==
  /\ seed \in Nat /\ request \in -1 .. seed /\ token \in -1 .. seed
  /\ splits \in 0 .. MaxSplits
  /\ screenRez \in Rez /\ polled \in BOOLEAN
  /\ rpPc \in {"poll", "handle", "term", "render", "overlay", "publish"}
  /\ stPc \in {"boot", "send", "wait", "vsync", "text", "picture", "keys"}
  /\ ring \in Seq(Words(Now)) /\ out \in Seq(Words(Now))
  /\ times \in [Key -> Nat] /\ late \in [Sent -> Nat]

(* A command leaves the parser only to be handled at once, and a key the   *)
(* terminal only to be acted upon at once.                                 *)
HoldInv ==
  /\ IF rpPc = "handle" THEN pending \in Commands(Now) ELSE pending = None
  /\ slot # None => rpPc = "term" /\ slot \in Commands(Now) /\ Len(slot) = 2

(* The words of the command end with its checksum, on the bus and then in  *)
(* the ring, until a turn has begun.                                       *)
SendInv ==
  /\ stPc = "boot" => typed = 0
  /\ Sending => request >= 0 /\ payload = Parameter /\ attempts >= 1
  /\ stPc = "send" =>
       /\ ~polled /\ out # << >> /\ Last(out) = Checksum(Body(Current))
       /\ \A i \in 1 .. Len(out) - 1 : out[i].sum = << >>
  /\ stPc = "wait" =>
       IF polled THEN ring = << >>
       ELSE ring # << >> /\ Last(ring) = Checksum(Body(Current))

WireInv == WireType /\ HoldInv /\ SendInv

(* The keys on their way are in order: those the RP has taken from the     *)
(* ring are older than those that are in it, and none is older than the    *)
(* one acted upon.                                                         *)
Carries(w, k) == Len(w.sum) = 4 /\ w.sum[4] = Word(k)
InRing(k) == {i \in 1 .. Len(ring) : Carries(ring[i], k)}
Taken(k) == (Len(pending) = 2 /\ pending[2] = k) \/ (Len(slot) = 2 /\ slot[2] = k)

OrderInv ==
  /\ \A k \in Key : InRing(k) # {} \/ Taken(k) => acted <= k
  /\ \A j, k \in Key : Taken(j) /\ InRing(k) # {} => j <= k

(* Copies of a key that may still be acted upon, and those that were.      *)
Kept(k) == IF Taken(k) THEN 1 ELSE 0
InSend(k) == IF stPc = "send" /\ typed = k THEN 1 ELSE 0
Copies(k) == times[k] + Cardinality(InRing(k)) + Kept(k) + InSend(k)
(* The key being tried, when a turn has taken the ring: its last copy is   *)
(* being handled, or was handled, or one has been lost for nothing.        *)
Accounted ==
  stPc = "wait" /\ polled =>
    \A k \in Key :
      \/ typed # k
      \/ Copies(k) <= late[k]
      \/ IF rpPc = "handle" THEN pending[1] = request ELSE Acked

CopiesInv ==
  /\ \A k \in Key : Copies(k) <= 1 + late[k] /\ (k > typed => times[k] = 0)
  /\ Accounted

(* The resolution: every attempt the Atari makes in vain is paid for by a  *)
(* timeout in a long turn or by a split, and before the last is spent a    *)
(* command gets through whole.                                             *)
Paid(d) == Attempts - attempts + d <= late[0] + splits
Whole == \E q \in Commands(Now) : /\ Len(Encode(q)) <= Len(ring)
                             /\ SubSeq(ring, 1, Len(Encode(q))) = Encode(q)
Untouched == ring = << >> /\ rpPc # "handle" /\ token = -1
GetsThrough ==
  \/ rpPc = "handle"
  \/ Whole
  \/ stPc = "send" /\ ring = << >> /\ out = Encode(Current)
  \/ Paid(1)
Spare == late[0] + MaxSplits < Attempts
RezInv ==
  /\ stPc = "boot" => Untouched
  /\ stPc # "boot" /\ rezVar # screenRez =>
       Sending /\ typed = 0 /\ token = -1 /\ Paid(0) /\ GetsThrough

IInv == TypeOK /\ WireInv /\ OrderInv /\ CopiesInv /\ (Spare => RezInv)

-----------------------------------------------------------------------------
LEMMA Least ==
  ASSUME NEW T \in SUBSET Nat, T # {}
  PROVE  \E x \in T : \A y \in T : x <= y
<1> DEFINE R == OpToRel(<, Nat)
<1>1. IsWellFoundedOn(R, Nat)
  BY NatLessThanWellFounded
<1>2. \A x, y \in Nat : x < y => <<x, y>> \in R
  BY Zenon DEF OpToRel
<1> HIDE DEF R
<1>3. PICK x \in T : \A y \in T : ~(<<y, x>> \in R)
  BY <1>1, WFMin
<1>4. ASSUME NEW y \in T PROVE x <= y
  <2>1. x \in Nat /\ y \in Nat
    OBVIOUS
  <2>2. y < x => <<y, x>> \in R
    BY <1>2, <2>1
  <2> QED
    BY <1>3, <2>1, <2>2
<1> QED
  BY <1>4

LEMMA Induction ==
  ASSUME NEW n \in Nat, NEW S, 0 \in S,
         \A i \in 1 .. n : i - 1 \in S => i \in S
  PROVE  \A i \in 0 .. n : i \in S
<1> DEFINE T == {i \in 0 .. n : i \notin S}
<1> SUFFICES ASSUME T # {} PROVE FALSE
  OBVIOUS
<1>1. T \in SUBSET Nat
  OBVIOUS
<1>2. PICK x \in T : \A y \in T : x <= y
  BY <1>1, Least
<1>3. x \in 1 .. n /\ x - 1 \notin T
  BY <1>2
<1> QED
  BY <1>2, <1>3

-----------------------------------------------------------------------------
(* The parser, from a recursive function to one step per word.             *)
Run(words, f) ==
  /\ f = [i \in 0 .. Len(words) |-> f[i]]
  /\ f[0] = Scanning
  /\ \A i \in 1 .. Len(words) : f[i] = Parse(f[i - 1], words[i])

LEMMA RunExists ==
  ASSUME NEW words, Len(words) \in Nat
  PROVE  \E f : Run(words, f)
<1> DEFINE N == Len(words)
           Upto(m, f) == /\ f = [i \in 0 .. N |-> f[i]]
                         /\ f[0] = Scanning
                         /\ \A i \in 1 .. m : f[i] = Parse(f[i - 1], words[i])
           S == {m \in 0 .. N : \E f : Upto(m, f)}
<1>1. \E f : Upto(0, f)
  <2> DEFINE f == [i \in 0 .. N |-> Scanning]
  <2>1. Upto(0, f)
    OBVIOUS
  <2> HIDE DEF f, Upto
  <2> QED
    BY <2>1
<1>2. ASSUME NEW m \in 1 .. N, NEW f, Upto(m - 1, f)
      PROVE  \E g : Upto(m, g)
  <2> DEFINE g == [i \in 0 .. N |-> IF i = m THEN Parse(f[m - 1], words[m]) ELSE f[i]]
  <2>1. /\ g = [i \in 0 .. N |-> g[i]]
        /\ g[0] = Scanning
    BY <1>2
  <2>2. ASSUME NEW i \in 1 .. m PROVE g[i] = Parse(g[i - 1], words[i])
    <3>1. i \in 0 .. N /\ i - 1 \in 0 .. N /\ i - 1 # m
      OBVIOUS
    <3>2. g[i - 1] = f[i - 1]
      BY <3>1
    <3>3. CASE i = m
      BY <3>1, <3>2, <3>3
    <3>4. CASE i # m
      <4>1. i \in 1 .. m - 1
        BY <3>4
      <4>2. f[i] = Parse(f[i - 1], words[i])
        BY <1>2, <4>1
      <4> QED
        BY <3>1, <3>2, <3>4, <4>2
    <3> QED
      BY <3>3, <3>4
  <2>3. Upto(m, g)
    BY <2>1, <2>2
  <2> HIDE DEF g, Upto
  <2> QED
    BY <2>3
<1> HIDE DEF Upto
<1>3. \A i \in 0 .. N : i \in S
  <2>1. 0 \in S
    BY <1>1
  <2>2. ASSUME NEW m \in 1 .. N, m - 1 \in S PROVE m \in S
    BY <1>2, <2>2
  <2> HIDE DEF S
  <2> QED
    BY <2>1, <2>2, Induction
<1>4. PICK f : Upto(N, f)
  BY <1>3
<1> QED
  BY <1>4 DEF Upto, Run

LEMMA ParseRun ==
  ASSUME NEW words, Len(words) \in Nat
  PROVE  \E f : Run(words, f) /\ ParseAll(words) = f[Len(words)]
<1> DEFINE Step(f) ==
      [i \in 0 .. Len(words) |->
         IF i = 0 THEN Scanning
         ELSE CHOOSE q \in {Parse(p, words[i]) : p \in {f[i - 1]}} : TRUE]
<1> DEFINE after == CHOOSE f : f = Step(f)
<1>1. ParseAll(words) = after[Len(words)]
  BY DEF ParseAll
<1>2. \A f : \A i \in 1 .. Len(words) :
        (CHOOSE q \in {Parse(p, words[i]) : p \in {f[i - 1]}} : TRUE) =
          Parse(f[i - 1], words[i])
  OBVIOUS
<1>3. ASSUME NEW f, Run(words, f) PROVE f = Step(f)
  BY <1>2, <1>3 DEF Run
<1>4. \E f : f = Step(f)
  BY <1>3, RunExists
<1> HIDE DEF Step
<1>5. after = Step(after)
  BY <1>4
<1> USE DEF Step
<1> HIDE DEF after
<1>6. Run(words, after)
  BY <1>2, <1>5 DEF Run
<1> QED
  BY <1>1, <1>6
-----------------------------------------------------------------------------
(* What the words of a command are.                                        *)
LEMMA JoinFour ==
  ASSUME NEW a, NEW b, NEW c, NEW d
  PROVE  <<a, b>> \o <<c, d>> = <<a, b, c, d>>
<1> DEFINE S == {a, b, c, d}
<1>1. <<a, b>> \in Seq(S) /\ <<c, d>> \in Seq(S) /\ <<a, b, c, d>> \in Seq(S)
  OBVIOUS
<1> HIDE DEF S
<1>2. /\ <<a, b>> \o <<c, d>> \in Seq(S)
      /\ Len(<<a, b>> \o <<c, d>>) = 4
      /\ \A i \in 1 .. 4 : (<<a, b>> \o <<c, d>>)[i] = <<a, b, c, d>>[i]
  BY <1>1, ConcatProperties
<1> QED
  BY <1>1, <1>2, SeqEqual

LEMMA JoinFive ==
  ASSUME NEW a, NEW b, NEW c, NEW d, NEW e
  PROVE  <<a, b>> \o <<c, d, e>> = <<a, b, c, d, e>>
<1> DEFINE S == {a, b, c, d, e}
<1>1. <<a, b>> \in Seq(S) /\ <<c, d, e>> \in Seq(S) /\ <<a, b, c, d, e>> \in Seq(S)
  OBVIOUS
<1> HIDE DEF S
<1>2. /\ <<a, b>> \o <<c, d, e>> \in Seq(S)
      /\ Len(<<a, b>> \o <<c, d, e>>) = 5
      /\ \A i \in 1 .. 5 : (<<a, b>> \o <<c, d, e>>)[i] = <<a, b, c, d, e>>[i]
  BY <1>1, ConcatProperties
<1> QED
  BY <1>1, <1>2, SeqEqual

LEMMA KeyBody ==
  ASSUME NEW t, NEW k
  PROVE  Body(<<t, k>>) = <<Word(CommandId), Word(2), Word(t), Word(k)>>
<1>1. [i \in DOMAIN <<t, k>> |-> Word(<<t, k>>[i])] = <<Word(t), Word(k)>>
  OBVIOUS
<1> QED
  BY <1>1, JoinFour DEF Body

LEMMA RezBody ==
  ASSUME NEW t, NEW r
  PROVE  Body(<<t, MenuRez, r>>) =
           <<Word(CommandId), Word(3), Word(t), Word(MenuRez), Word(r)>>
<1>1. [i \in DOMAIN <<t, MenuRez, r>> |-> Word(<<t, MenuRez, r>>[i])] =
        <<Word(t), Word(MenuRez), Word(r)>>
  OBVIOUS
<1> QED
  BY <1>1, JoinFive DEF Body

LEMMA KeyParameters ==
  ASSUME NEW t, NEW k PROVE Parameters(Body(<<t, k>>)) = <<t, k>>
<1>1. Parameters(<<Word(CommandId), Word(2), Word(t), Word(k)>>) = <<t, k>>
  BY DEF Parameters, Word
<1> QED
  BY <1>1, KeyBody, Zenon

LEMMA RezParameters ==
  ASSUME NEW t, NEW r
  PROVE  Parameters(Body(<<t, MenuRez, r>>)) = <<t, MenuRez, r>>
<1>1. Parameters(<<Word(CommandId), Word(3), Word(t), Word(MenuRez), Word(r)>>) =
        <<t, MenuRez, r>>
  BY DEF Parameters, Word
<1> QED
  BY <1>1, RezBody, Zenon

LEMMA BodyShape ==
  ASSUME NEW c, NEW q \in Commands(c)
  PROVE  /\ Body(q) \in Seq(Words(c))
         /\ Len(q) \in {2, 3} /\ Len(Body(q)) = Len(q) + 2
         /\ Body(q)[2] = Word(Len(q))
         /\ \A i \in 1 .. Len(Body(q)) : Body(q)[i].sum = << >>
         /\ Parameters(Body(q)) = q
<1>1. \A n \in Numbers(c) : Word(n) \in Words(c)
  BY DEF Words
<1>2. CASE \E t \in 0 .. c.seed, k \in 1 .. c.typed : q = <<t, k>>
  <2>1. PICK t \in 0 .. c.seed, k \in 1 .. c.typed : q = <<t, k>>
    BY <1>2
  <2>2. Word(CommandId) \in Words(c) /\ Word(2) \in Words(c) /\ Word(t) \in Words(c)
        /\ Word(k) \in Words(c)
    BY <1>1 DEF Numbers
  <2>3. <<Word(CommandId), Word(2), Word(t), Word(k)>> \in Seq(Words(c))
    BY <2>2
  <2>4. Body(q) = <<Word(CommandId), Word(2), Word(t), Word(k)>>
    BY <2>1, KeyBody
  <2>5. Parameters(Body(q)) = q
    BY <2>1, KeyParameters
  <2>6. /\ Len(q) = 2 /\ Len(Body(q)) = 4 /\ Body(q)[2] = Word(2)
        /\ \A i \in 1 .. 4 : Body(q)[i].sum = << >>
    BY <2>1, <2>4 DEF Word
  <2> QED
    BY <2>3, <2>4, <2>5, <2>6
<1>3. CASE \E t \in 0 .. c.seed : q = <<t, MenuRez, c.rez>>
  <2>1. PICK t \in 0 .. c.seed : q = <<t, MenuRez, c.rez>>
    BY <1>3
  <2>2. Word(CommandId) \in Words(c) /\ Word(3) \in Words(c) /\ Word(t) \in Words(c)
        /\ Word(MenuRez) \in Words(c) /\ Word(c.rez) \in Words(c)
    BY <1>1 DEF Numbers
  <2>3. <<Word(CommandId), Word(3), Word(t), Word(MenuRez), Word(c.rez)>>
          \in Seq(Words(c))
    BY <2>2
  <2>4. Body(q) = <<Word(CommandId), Word(3), Word(t), Word(MenuRez), Word(c.rez)>>
    BY <2>1, RezBody
  <2>5. Parameters(Body(q)) = q
    BY <2>1, RezParameters
  <2>6. /\ Len(q) = 3 /\ Len(Body(q)) = 5 /\ Body(q)[2] = Word(3)
        /\ \A i \in 1 .. 5 : Body(q)[i].sum = << >>
    BY <2>1, <2>4 DEF Word
  <2> QED
    BY <2>3, <2>4, <2>5, <2>6
<1> QED
  BY <1>2, <1>3 DEF Commands

LEMMA EncodeShape ==
  ASSUME NEW c, NEW q \in Commands(c)
  PROVE  /\ Encode(q) \in Seq(Words(c))
         /\ Len(Encode(q)) = Len(q) + 4
         /\ Encode(q)[1] = Word(Header)
         /\ \A i \in 1 .. Len(q) + 2 : Encode(q)[i + 1] = Body(q)[i]
         /\ Encode(q)[Len(q) + 4] = Checksum(Body(q))
<1> DEFINE front == <<Word(Header)>> \o Body(q)
<1>1. <<Word(Header)>> \in Seq(Words(c)) /\ <<Checksum(Body(q))>> \in Seq(Words(c))
  <2>1. Word(Header) \in Words(c) /\ Checksum(Body(q)) \in Words(c)
    BY DEF Words, Numbers
  <2> QED
    BY <2>1
<1>2. /\ front \in Seq(Words(c)) /\ Len(front) = Len(q) + 3
      /\ front[1] = Word(Header)
      /\ \A i \in 1 .. Len(q) + 2 : front[i + 1] = Body(q)[i]
  <2>1. Body(q) \in Seq(Words(c)) /\ Len(q) \in Nat /\ Len(Body(q)) = Len(q) + 2
    BY BodyShape
  <2> HIDE DEF Words
  <2>2. /\ front \in Seq(Words(c)) /\ Len(front) = 1 + Len(Body(q))
        /\ \A i \in 1 .. 1 + Len(Body(q)) :
             front[i] = IF i <= 1 THEN <<Word(Header)>>[i] ELSE Body(q)[i - 1]
    BY <1>1, <2>1, ConcatProperties
  <2> QED
    BY <2>1, <2>2
<1> HIDE DEF front
<1>3. Encode(q) = front \o <<Checksum(Body(q))>>
  BY <1>1, <1>2, BodyShape DEF Encode, front
<1>4. Len(q) \in Nat
  BY BodyShape
<1>5. /\ Encode(q) \in Seq(Words(c)) /\ Len(Encode(q)) = Len(q) + 4
      /\ \A i \in 1 .. Len(q) + 4 :
           Encode(q)[i] = IF i <= Len(q) + 3 THEN front[i] ELSE <<Checksum(Body(q))>>[i - (Len(q) + 3)]
  BY <1>1, <1>2, <1>3, <1>4, ConcatProperties
<1> QED
  BY <1>2, <1>4, <1>5

LEMMA WordShape ==
  ASSUME NEW c, NEW w \in Words(c)
  PROVE  w.sum = << >> \/ \E q \in Commands(c) : w = Checksum(Body(q)) /\ w.sum = Body(q)
<1>1. CASE \E n \in Numbers(c) : w = Word(n)
  BY <1>1 DEF Word
<1>2. CASE \E q \in Commands(c) : w = Checksum(Body(q))
  <2>1. PICK q \in Commands(c) : w = Checksum(Body(q))
    BY <1>2
  <2>2. Checksum(Body(q)).sum = Body(q)
    BY DEF Checksum
  <2> QED
    BY <2>1, <2>2
<1> QED
  BY <1>1, <1>2 DEF Words

-----------------------------------------------------------------------------
(* One word: what is kept stays, and is the command its checksum belongs   *)
(* to.                                                                     *)
Parser(p) == p = [found |-> p.found, body |-> p.body, kept |-> p.kept]

LEMMA ParseStep ==
  ASSUME NEW p, Parser(p), NEW w
  PROVE  /\ Parser(Parse(p, w))
         /\ \/ Parse(p, w).kept = p.kept
            \/ /\ p.kept = None /\ Parse(p, w).kept = Parameters(p.body)
               /\ w.sum = p.body /\ Complete(p.body)
<1>1. CASE ~p.found
  BY <1>1 DEF Parse, Parser
<1>2. CASE p.found /\ ~Complete(p.body)
  BY <1>2 DEF Parse, Parser
<1>3. CASE p.found /\ Complete(p.body)
  <2>1. Parse(p, w) = [found |-> FALSE, body |-> << >>,
                       kept |-> IF w.sum = p.body THEN Keep(p) ELSE p.kept]
    BY <1>3 DEF Parse, Scanning, SumMatches
  <2> QED
    BY <1>3, <2>1 DEF Parser, Keep
<1> QED
  BY <1>1, <1>2, <1>3

LEMMA ParserStates ==
  ASSUME NEW words, Len(words) \in Nat, NEW f, Run(words, f)
  PROVE  \A i \in 0 .. Len(words) : Parser(f[i])
<1> DEFINE S == {i \in 0 .. Len(words) : Parser(f[i])}
<1>1. 0 \in S
  BY DEF Run, Parser, Scanning
<1>2. ASSUME NEW i \in 1 .. Len(words), i - 1 \in S PROVE i \in S
  <2>1. Parser(f[i - 1]) /\ f[i] = Parse(f[i - 1], words[i])
    BY <1>2 DEF Run
  <2> QED
    BY <2>1, ParseStep
<1>3. \A i \in 0 .. Len(words) : i \in S
  <2> HIDE DEF S
  <2> QED
    BY <1>1, <1>2, Induction
<1> QED
  BY <1>3

(* What a turn keeps is a command that was sent, and its checksum was in   *)
(* the ring: the parser makes nothing up, whatever it is fed.              *)
LEMMA Genuine ==
  ASSUME NEW c, NEW words \in Seq(Words(c)), ParseAll(words).kept # None
  PROVE  /\ ParseAll(words).kept \in Commands(c)
         /\ \E i \in 1 .. Len(words) : words[i] = Checksum(Body(ParseAll(words).kept))
<1> DEFINE Found(q, i) ==
      q \in Commands(c) /\ \E j \in 1 .. i : words[j] = Checksum(Body(q))
<1>1. PICK f : Run(words, f) /\ ParseAll(words) = f[Len(words)]
  BY ParseRun
<1> DEFINE S == {i \in 0 .. Len(words) : f[i].kept = None \/ Found(f[i].kept, i)}
<1>2. 0 \in S
  BY <1>1 DEF Run, Scanning
<1>3. ASSUME NEW i \in 1 .. Len(words), i - 1 \in S PROVE i \in S
  <2>1. Parser(f[i - 1]) /\ f[i] = Parse(f[i - 1], words[i])
    BY <1>1, ParserStates DEF Run
  <2>2. CASE f[i].kept = f[i - 1].kept
    BY <1>3, <2>2
  <2>3. CASE /\ f[i].kept = Parameters(f[i - 1].body)
             /\ words[i].sum = f[i - 1].body /\ Complete(f[i - 1].body)
    <3>1. words[i].sum # << >>
      BY <2>3 DEF Complete
    <3>2. PICK q \in Commands(c) : words[i] = Checksum(Body(q)) /\ words[i].sum = Body(q)
      BY <3>1, WordShape
    <3>3. f[i].kept = q
      BY <2>3, <3>2, BodyShape
    <3> QED
      BY <3>2, <3>3
  <2>4. \/ f[i].kept = f[i - 1].kept
        \/ /\ f[i].kept = Parameters(f[i - 1].body)
           /\ words[i].sum = f[i - 1].body /\ Complete(f[i - 1].body)
    <3> DEFINE p == f[i - 1]
               w == words[i]
    <3>1. Parser(p) /\ f[i] = Parse(p, w)
      BY <2>1
    <3> HIDE DEF p, w
    <3>2. \/ Parse(p, w).kept = p.kept
          \/ /\ Parse(p, w).kept = Parameters(p.body)
             /\ w.sum = p.body /\ Complete(p.body)
      BY <3>1, ParseStep
    <3> QED
      BY <3>1, <3>2 DEF p, w
  <2> HIDE DEF S
  <2> QED
    BY <2>2, <2>3, <2>4
<1>4. \A i \in 0 .. Len(words) : i \in S
  <2>1. Len(words) \in Nat
    OBVIOUS
  <2> HIDE DEF S
  <2> QED
    BY <1>2, <1>3, <2>1, Induction
<1> QED
  BY <1>1, <1>4

LEMMA NothingKept == ParseAll(<< >>).kept = None
<1>1. PICK f : Run(<< >>, f) /\ ParseAll(<< >>) = f[Len(<< >>)]
  BY ParseRun
<1> QED
  BY <1>1 DEF Run, Scanning

(* A command that arrives whole, before anything else, is kept, or one     *)
(* that came before it.                                                    *)
LEMMA KeptStays ==
  ASSUME NEW words, Len(words) \in Nat, NEW f, Run(words, f),
         NEW m \in 0 .. Len(words), f[m].kept # None
  PROVE  f[Len(words)].kept # None
<1> DEFINE S == {i \in 0 .. Len(words) : i >= m => f[i].kept # None}
<1>1. 0 \in S
  OBVIOUS
<1>2. ASSUME NEW i \in 1 .. Len(words), i - 1 \in S PROVE i \in S
  <2>1. Parser(f[i - 1]) /\ f[i] = Parse(f[i - 1], words[i])
    <3>1. \A j \in 0 .. Len(words) : Parser(f[j])
      BY ParserStates
    <3> QED
      BY <3>1 DEF Run
  <2>2. f[i].kept = f[i - 1].kept \/ f[i - 1].kept = None
    <3> DEFINE p == f[i - 1]
               w == words[i]
    <3>1. Parser(p) /\ f[i] = Parse(p, w)
      BY <2>1
    <3> HIDE DEF p, w
    <3>2. Parse(p, w).kept = p.kept \/ p.kept = None
      BY <3>1, ParseStep
    <3> QED
      BY <3>1, <3>2 DEF p, w
  <2>3. CASE i = m
    BY <2>3
  <2>4. CASE i # m
    BY <1>2, <2>2, <2>4
  <2> QED
    BY <2>3, <2>4
<1>3. \A i \in 0 .. Len(words) : i \in S
  <2> HIDE DEF S
  <2> QED
    BY <1>1, <1>2, Induction
<1> QED
  BY <1>3

LEMMA WholeKept ==
  ASSUME NEW c, NEW words \in Seq(Words(c)), NEW b \in Seq(Words(c)), NEW n \in {4, 5},
         Len(b) = n, b[2] = Word(n - 2), n + 2 <= Len(words),
         words[1] = Word(Header), \A i \in 1 .. n : words[i + 1] = b[i],
         words[n + 2] = Checksum(b), Parameters(b) # None
  PROVE  ParseAll(words).kept # None
<1> DEFINE Collected(p, i) ==
      Parser(p) /\ p.found /\ p.body = SubSeq(b, 1, i) /\ p.kept = None
<1>1. PICK f : Run(words, f) /\ ParseAll(words) = f[Len(words)]
  BY ParseRun
<1>2. /\ f[0] = Scanning /\ n + 2 \in 0 .. Len(words)
      /\ \A i \in 1 .. n + 2 : f[i] = Parse(f[i - 1], words[i])
  <2>1. n + 2 \in 0 .. Len(words) /\ \A i \in 1 .. n + 2 : i \in 1 .. Len(words)
    OBVIOUS
  <2> QED
    BY <1>1, <2>1 DEF Run
<1>3. Collected(f[1], 0)
  <2>1. f[1] = Parse(f[0], words[1]) /\ words[1].v = Header
    BY <1>2 DEF Word
  <2>2. f[1] = [found |-> words[1].v = Header, body |-> << >>, kept |-> None]
    BY <1>2, <2>1 DEF Parse, Scanning
  <2>3. SubSeq(b, 1, 0) = << >>
    OBVIOUS
  <2>4. f[1].found
    <3>1. [found |-> words[1].v = Header, body |-> << >>, kept |-> None].found
      BY <2>1, Zenon
    <3> QED
      BY <2>2, <3>1, Zenon
  <2>5. f[1].body = << >> /\ f[1].kept = None
    BY <2>2
  <2>6. Parser(f[1])
    BY <2>2 DEF Parser
  <2> QED
    BY <2>3, <2>4, <2>5, <2>6
<1>4. ASSUME NEW i \in 1 .. n, Collected(f[i], i - 1)
      PROVE  Collected(f[i + 1], i)
  <2>1. f[i + 1] = Parse(f[i], b[i])
    <3>1. i + 1 \in 1 .. n + 2 /\ i + 1 - 1 = i
      OBVIOUS
    <3>2. f[i + 1] = Parse(f[i + 1 - 1], words[i + 1])
      BY <1>2, <3>1
    <3>3. words[i + 1] = b[i]
      OBVIOUS
    <3> QED
      BY <3>1, <3>2, <3>3
  <2>2. /\ SubSeq(b, 1, i - 1) \in Seq(Words(c)) /\ Len(SubSeq(b, 1, i - 1)) = i - 1
        /\ i - 1 >= 2 => SubSeq(b, 1, i - 1)[2] = b[2]
    OBVIOUS
  <2>3. Append(SubSeq(b, 1, i - 1), b[i]) = SubSeq(b, 1, i)
    <3>1. i \in 1 .. Len(b)
      OBVIOUS
    <3> QED
      BY <3>1
  <2>4. ~Complete(SubSeq(b, 1, i - 1))
    BY <2>2 DEF Complete, Word
  <2>5. f[i + 1] = [f[i] EXCEPT !.body = Append(@, b[i])]
    BY <1>4, <2>1, <2>4 DEF Parse
  <2> QED
    BY <1>4, <2>3, <2>5 DEF Parser
<1>5. Collected(f[n + 1], n)
  <2> HIDE DEF Collected
  <2>1. Collected(f[2], 1)
    BY <1>3, <1>4
  <2>2. Collected(f[3], 2)
    BY <1>4, <2>1
  <2>3. Collected(f[4], 3)
    BY <1>4, <2>2
  <2>4. Collected(f[5], 4)
    BY <1>4, <2>3
  <2>5. n = 5 => Collected(f[6], 5)
    BY <1>4, <2>4
  <2> QED
    BY <2>4, <2>5
<1>6. SubSeq(b, 1, n) = b /\ Complete(b)
  BY DEF Complete, Word
<1>7. f[n + 2].kept # None
  <2>1. f[n + 2] = Parse(f[n + 1], words[n + 2]) /\ words[n + 2].sum = b
    BY <1>2 DEF Checksum
  <2>2. f[n + 1].found /\ f[n + 1].body = b /\ f[n + 1].kept = None
    BY <1>5, <1>6
  <2> QED
    BY <1>6, <2>1, <2>2 DEF Parse, Keep, SumMatches, Scanning
<1> QED
  BY <1>1, <1>2, <1>7, KeptStays

-----------------------------------------------------------------------------
LEMMA CommandShape ==
  ASSUME NEW c, NEW q \in Commands(c)
  PROVE  /\ q # None /\ q[1] \in 0 .. c.seed
         /\ \/ Len(q) = 2 /\ q[2] \in 1 .. c.typed
            \/ Len(q) = 3 /\ q[2] = MenuRez /\ q[3] = c.rez
<1>1. CASE \E t \in 0 .. c.seed, k \in 1 .. c.typed : q = <<t, k>>
  <2>1. PICK t \in 0 .. c.seed, k \in 1 .. c.typed : q = <<t, k>>
    BY <1>1
  <2>2. q # None /\ q[1] = t /\ q[2] = k /\ Len(q) = 2
    BY <2>1 DEF None
  <2> QED
    BY <2>1, <2>2
<1>2. CASE \E t \in 0 .. c.seed : q = <<t, MenuRez, c.rez>>
  <2>1. PICK t \in 0 .. c.seed : q = <<t, MenuRez, c.rez>>
    BY <1>2
  <2>2. q # None /\ q[1] = t /\ q[2] = MenuRez /\ q[3] = c.rez /\ Len(q) = 3
    BY <2>1 DEF None
  <2> QED
    BY <2>1, <2>2
<1> QED
  BY <1>1, <1>2 DEF Commands

LEMMA Grow ==
  ASSUME NEW c, NEW d, c.rez = d.rez,
         c.seed \in Nat, d.seed \in Nat, c.seed <= d.seed,
         c.typed \in Nat, d.typed \in Nat, c.typed <= d.typed
  PROVE  /\ Commands(c) \subseteq Commands(d) /\ Words(c) \subseteq Words(d)
         /\ Seq(Words(c)) \subseteq Seq(Words(d))
<1>1. 0 .. c.seed \subseteq 0 .. d.seed /\ 1 .. c.typed \subseteq 1 .. d.typed
  OBVIOUS
<1>2. Commands(c) \subseteq Commands(d) /\ Numbers(c) \subseteq Numbers(d)
  BY <1>1 DEF Commands, Numbers
<1>3. Words(c) \subseteq Words(d)
  BY <1>2 DEF Words
<1> QED
  BY <1>2, <1>3, SeqMonotonic

(* The words of a new command.                                             *)
LEMMA EncodeEnds ==
  ASSUME NEW c, NEW q \in Commands(c)
  PROVE  /\ Encode(q) \in Seq(Words(c)) /\ Encode(q) # << >>
         /\ Last(Encode(q)) = Checksum(Body(q))
         /\ \A i \in 1 .. Len(Encode(q)) - 1 : Encode(q)[i].sum = << >>
<1>1. PICK n \in {2, 3} : n = Len(q)
  BY BodyShape
<1>2. /\ Len(Encode(q)) = n + 4 /\ Encode(q) \in Seq(Words(c))
      /\ Encode(q)[1] = Word(Header) /\ Encode(q)[n + 4] = Checksum(Body(q))
      /\ \A i \in 1 .. n + 2 : Encode(q)[i + 1] = Body(q)[i]
      /\ \A i \in 1 .. n + 2 : Body(q)[i].sum = << >>
  BY <1>1, BodyShape, EncodeShape
<1>3. ASSUME NEW i \in 1 .. n + 3 PROVE Encode(q)[i].sum = << >>
  <2>1. CASE i = 1
    BY <1>2, <2>1 DEF Word
  <2>2. CASE i # 1
    <3>1. i - 1 \in 1 .. n + 2 /\ i - 1 + 1 = i
      BY <2>2
    <3> QED
      BY <1>2, <3>1
  <2> QED
    BY <2>1, <2>2
<1> QED
  BY <1>2, <1>3 DEF Last

LEMMA WholeRing ==
  ASSUME WireType, Whole PROVE ParseAll(ring).kept # None
<1>1. PICK q \in Commands(Now) :
        /\ Len(Encode(q)) <= Len(ring)
        /\ SubSeq(ring, 1, Len(Encode(q))) = Encode(q)
  BY DEF Whole
<1>2. PICK n \in {4, 5} : n = Len(q) + 2
  <2>1. PICK m \in {2, 3} : m = Len(q)
    BY BodyShape
  <2> QED
    BY <2>1
<1>3. PICK b \in Seq(Words(Now)) :
        /\ b = Body(q) /\ Len(b) = n /\ b[2] = Word(n - 2) /\ Parameters(b) = q
  <2>1. Len(q) = n - 2
    BY <1>2, BodyShape
  <2> QED
    BY <1>2, <2>1, BodyShape
<1>4. /\ Len(Encode(q)) = n + 2 /\ Encode(q) \in Seq(Words(Now))
      /\ Encode(q)[1] = Word(Header) /\ Encode(q)[n + 2] = Checksum(b)
      /\ \A i \in 1 .. n : Encode(q)[i + 1] = b[i]
  <2>1. Len(q) + 4 = n + 2
    BY <1>2, BodyShape
  <2> QED
    BY <1>2, <1>3, <2>1, EncodeShape
<1>5. ring \in Seq(Words(Now))
  BY DEF WireType
<1>6. n + 2 <= Len(ring) /\ \A i \in 1 .. n + 2 : ring[i] = Encode(q)[i]
  BY <1>1, <1>4, <1>5
<1>7. /\ ring[1] = Word(Header) /\ ring[n + 2] = Checksum(b)
      /\ \A i \in 1 .. n : ring[i + 1] = b[i]
  BY <1>4, <1>6
<1>8. Parameters(b) # None
  BY <1>3, CommandShape
<1> QED
  BY <1>3, <1>5, <1>6, <1>7, <1>8, WholeKept

LEMMA Prefixed ==
  ASSUME NEW a, NEW b, NEW c
  PROVE  <<a>> \o <<b>> = <<a, b>> /\ <<a>> \o <<b, c>> = <<a, b, c>>
<1> DEFINE S == {a, b, c}
<1>1. /\ <<a>> \in Seq(S) /\ <<b>> \in Seq(S) /\ <<b, c>> \in Seq(S)
      /\ <<a, b>> \in Seq(S) /\ <<a, b, c>> \in Seq(S)
  OBVIOUS
<1> HIDE DEF S
<1>2. /\ <<a>> \o <<b>> \in Seq(S) /\ Len(<<a>> \o <<b>>) = 2
      /\ \A i \in 1 .. 2 : (<<a>> \o <<b>>)[i] = <<a, b>>[i]
  BY <1>1, ConcatProperties
<1>3. /\ <<a>> \o <<b, c>> \in Seq(S) /\ Len(<<a>> \o <<b, c>>) = 3
      /\ \A i \in 1 .. 3 : (<<a>> \o <<b, c>>)[i] = <<a, b, c>>[i]
  BY <1>1, ConcatProperties
<1>4. <<a>> \o <<b>> = <<a, b>>
  BY <1>1, <1>2, SeqEqual
<1>5. <<a>> \o <<b, c>> = <<a, b, c>>
  BY <1>1, <1>3, SeqEqual
<1> QED
  BY <1>4, <1>5

(* The seed only grows and keys are only added, so that what was a command *)
(* stays one.                                                              *)
LEMMA NothingForgotten ==
  ASSUME TypeOK, WireType, [Next]_vars
  PROVE  /\ Commands(Now) \subseteq Commands(Now')
         /\ Words(Now) \subseteq Words(Now')
         /\ Seq(Words(Now)) \subseteq Seq(Words(Now'))
<1>1. seed \in Nat /\ typed \in Nat
  BY LinkAssumption DEF TypeOK, WireType
<1>2. screenRez' = screenRez /\ (seed' = seed \/ seed' = seed + 1)
      /\ (typed' = typed \/ typed' = typed + 1)
  <2>1. CASE Rp
    BY <2>1 DEF Rp, Poll, Handle, TermLoop, NothingToRender, Refresh, SyncOverlay,
         PublishFrame, tokenVars, historyVars
  <2>2. CASE SendRez \/ SendKey \/ NoKey \/ SendSome \/ SendRest \/ AckSeen
               \/ TimeoutRetry \/ TimeoutGiveUp
    BY <2>2 DEF SendRez, SendKey, NoKey, SendSome, SendRest, AckSeen, TimeoutRetry,
         TimeoutGiveUp, tokenVars, historyVars
  <2>3. CASE SameFrame \/ NoteFrame \/ CopyText \/ CopyPicture
    BY <2>3 DEF SameFrame, NoteFrame, CopyText, CopyPicture, tokenVars, historyVars
  <2>4. CASE UNCHANGED vars
    BY <2>4 DEF vars, tokenVars, historyVars
  <2> QED
    BY <2>1, <2>2, <2>3, <2>4 DEF Next, St
<1>3. Now.seed = seed /\ Now.typed = typed /\ Now.rez = screenRez
  BY DEF Now
<1>4. Now'.seed = seed' /\ Now'.typed = typed' /\ Now'.rez = screenRez'
  BY DEF Now
<1> HIDE DEF Now
<1>5. /\ Now.rez = Now'.rez
      /\ Now.seed \in Nat /\ Now'.seed \in Nat /\ Now.seed <= Now'.seed
      /\ Now.typed \in Nat /\ Now'.typed \in Nat /\ Now.typed <= Now'.typed
  BY <1>1, <1>2, <1>3, <1>4
<1> QED
  BY <1>5, Grow

(* Every attempt sends the current command from its first word.            *)
LEMMA NewAttempt ==
  ASSUME TypeOK, WireInv, SendRez \/ SendKey \/ TimeoutRetry
  PROVE  /\ request' = seed /\ request' >= 0
         /\ payload' = Parameter' /\ attempts' \in 1 .. Attempts
         /\ Current' \in Commands(Now') /\ out' = Encode(Current')
         /\ stPc' = "send" /\ polled' = FALSE /\ seed' = seed /\ ring' = ring
<1> USE LinkAssumption
<1>1. seed \in Nat /\ typed \in Nat /\ typed' \in Nat /\ seed' = seed /\ request' = seed
      /\ stPc' = "send" /\ polled' = FALSE /\ ring' = ring
  BY DEF SendRez, SendKey, TimeoutRetry, First, Attempt, tokenVars, historyVars,
         TypeOK, WireInv, WireType
<1>2. attempts' \in 1 .. Attempts
  BY DEF SendRez, SendKey, TimeoutRetry, First, Attempt, Tries, TypeOK
<1>3. payload' = Parameter'
  <2>1. CASE SendRez
    BY <2>1 DEF SendRez, First, Parameter, WireInv, SendInv, historyVars
  <2>2. CASE SendKey
    BY <1>1, <2>2 DEF SendKey, First, Parameter, TypeOK
  <2>3. CASE TimeoutRetry
    BY <2>3 DEF TimeoutRetry, TimesOut, Parameter, WireInv, SendInv, Sending
  <2> QED
    BY <2>1, <2>2, <2>3
<1>4. out' = Encode(<<seed>> \o payload')
  BY DEF SendRez, SendKey, TimeoutRetry, First, Attempt
<1>5. <<seed>> \o payload' = Current'
  BY <1>1, <1>3, Prefixed DEF Parameter, Current
<1>6. Current' \in Commands(Now')
  <2>1. Now'.seed = seed /\ Now'.typed = typed' /\ Now'.rez = screenRez'
    BY <1>1 DEF Now
  <2> QED
    BY <1>1, <2>1 DEF Current, Commands
<1>7. request' >= 0
  BY <1>1
<1>8. out' = Encode(Current')
  BY <1>4, <1>5
<1> QED
  BY <1>1, <1>2, <1>3, <1>6, <1>7, <1>8

-----------------------------------------------------------------------------
LEMMA WireTypeStep == TypeOK /\ WireInv /\ [Next]_vars => WireType'
<1> SUFFICES ASSUME TypeOK, WireInv, [Next]_vars PROVE WireType'
  OBVIOUS
<1> USE LinkAssumption
<1>1. TypeOK /\ WireType
  BY DEF WireInv
<1>2. /\ Commands(Now) \subseteq Commands(Now') /\ Words(Now) \subseteq Words(Now')
      /\ Seq(Words(Now)) \subseteq Seq(Words(Now'))
  BY <1>1, NothingForgotten
<1>3. CASE Poll
  <2>1. << >> \in Seq(Words(Now'))
    OBVIOUS
  <2> QED
    BY <1>1, <1>2, <1>3, <2>1
    DEF Poll, WireType, tokenVars, sendVars, historyVars, Now, None
<1>4. CASE Handle
  <2>1. pending[1] \in 0 .. seed /\ rpPc = "handle"
    <3>1. pending \in Commands(Now)
      BY <1>4 DEF Handle, WireInv, HoldInv
    <3>2. pending[1] \in 0 .. Now.seed
      BY <3>1, CommandShape
    <3> QED
      BY <1>4, <3>2 DEF Handle, Now
  <2>2. ring' \in Seq(Words(Now')) /\ out' \in Seq(Words(Now'))
    BY <1>1, <1>2, <1>4 DEF Handle, WireType, sendVars
  <2> QED
    BY <1>1, <1>4, <2>1, <2>2
    DEF Handle, AfterHandling, WireType, sendVars, tryVars, historyVars
<1>5. CASE TermLoop
  <2>1. ring' \in Seq(Words(Now')) /\ out' \in Seq(Words(Now'))
    BY <1>1, <1>2, <1>5 DEF TermLoop, WireType, sendVars
  <2> QED
    <3>1. times' \in [Key -> Nat]
      <4>1. \/ times' = [k \in Key |-> IF k = acted' THEN times[k] + 1 ELSE times[k]]
            \/ times' = times
        BY <1>5 DEF TermLoop
      <4>2. times \in [Key -> Nat]
        BY <1>1 DEF WireType
      <4> QED
        BY <4>1, <4>2
    <3>2. rpPc' = "render" /\ late' = late
      BY <1>5 DEF TermLoop
    <3> QED
      BY <1>1, <1>5, <2>1, <3>1, <3>2
      DEF TermLoop, WireType, tokenVars, sendVars, tryVars
<1>6. CASE NothingToRender \/ Refresh \/ SyncOverlay \/ PublishFrame
  <2>1. ring' \in Seq(Words(Now')) /\ out' \in Seq(Words(Now'))
    BY <1>1, <1>2, <1>6
    DEF NothingToRender, Refresh, SyncOverlay, PublishFrame, WireType, sendVars
  <2> QED
    BY <1>1, <1>6, <2>1
    DEF NothingToRender, Refresh, SyncOverlay, PublishFrame, WireType, tokenVars,
        sendVars, tryVars, historyVars
<1>7. CASE SendRez \/ SendKey \/ TimeoutRetry
  <2>1. out' \in Seq(Words(Now'))
    BY <1>7, NewAttempt, EncodeEnds
  <2>2. ring' \in Seq(Words(Now'))
    BY <1>1, <1>2, <1>7, NewAttempt DEF WireType
  <2>3. request' = seed /\ polled' = FALSE /\ stPc' = "send" /\ seed' = seed
    BY <1>7, NewAttempt
  <2>4. splits' \in 0 .. MaxSplits /\ late' \in [Sent -> Nat]
    BY <1>1, <1>7
    DEF SendRez, SendKey, TimeoutRetry, TimesOut, First, WireType, historyVars
  <2>5. token' = token /\ screenRez' = screenRez
        /\ rpPc' = rpPc /\ times' = times
    BY <1>7 DEF SendRez, SendKey, TimeoutRetry, loopVars, tokenVars, historyVars
  <2>6. seed' \in Nat /\ request' \in -1 .. seed' /\ token' \in -1 .. seed'
    BY <1>1, <2>3, <2>5 DEF WireType
  <2> QED
    BY <1>1, <2>1, <2>2, <2>3, <2>4, <2>5, <2>6 DEF WireType
<1>8. CASE SendSome
  <2>1. PICK n \in 1 .. Len(out) - 1 :
          ring' = ring \o SubSeq(out, 1, n) /\ out' = SubSeq(out, n + 1, Len(out))
    BY <1>8 DEF SendSome
  <2>2. ring' \in Seq(Words(Now)) /\ out' \in Seq(Words(Now))
    <3>1. SubSeq(out, 1, n) \in Seq(Words(Now)) /\ out' \in Seq(Words(Now))
      BY <1>1, <2>1 DEF WireType
    <3> QED
      BY <1>1, <2>1, <3>1 DEF WireType
  <2> QED
    BY <1>1, <1>2, <1>8, <2>2 DEF SendSome, WireType, loopVars, tokenVars, historyVars
<1>9. CASE SendRest
  <2>1. ring' \in Seq(Words(Now)) /\ out' \in Seq(Words(Now))
    BY <1>1, <1>9 DEF SendRest, WireType
  <2> QED
    BY <1>1, <1>2, <1>9, <2>1
    DEF SendRest, WireType, loopVars, tokenVars, tryVars, historyVars
<1>10. CASE NoKey \/ AckSeen \/ TimeoutGiveUp
  <2>1. ring' \in Seq(Words(Now')) /\ out' \in Seq(Words(Now'))
    BY <1>1, <1>2, <1>10 DEF NoKey, AckSeen, TimeoutGiveUp, WireType, sendVars
  <2>2. late' \in [Sent -> Nat]
    BY <1>1, <1>10
    DEF NoKey, AckSeen, TimeoutGiveUp, TimesOut, WireType, historyVars
  <2> QED
    BY <1>1, <1>10, <2>1, <2>2
    DEF NoKey, AckSeen, TimeoutGiveUp, WireType, loopVars, tokenVars,
        sendVars, tryVars, historyVars
<1>11. CASE SameFrame \/ NoteFrame \/ CopyText \/ CopyPicture
  <2>1. ring' \in Seq(Words(Now')) /\ out' \in Seq(Words(Now'))
    BY <1>1, <1>2, <1>11
    DEF SameFrame, NoteFrame, CopyText, CopyPicture, WireType, sendVars
  <2> QED
    BY <1>1, <1>11, <2>1
    DEF SameFrame, NoteFrame, CopyText, CopyPicture, WireType, loopVars, tokenVars,
        sendVars, tryVars, historyVars
<1>12. CASE UNCHANGED vars
  <2>1. ring' \in Seq(Words(Now')) /\ out' \in Seq(Words(Now'))
    BY <1>1, <1>2, <1>12 DEF vars, WireType, sendVars
  <2> QED
    BY <1>1, <1>12, <2>1
    DEF vars, WireType, loopVars, tokenVars, sendVars, tryVars, historyVars
<1> QED
  BY <1>3, <1>4, <1>5, <1>6, <1>7, <1>8, <1>9, <1>10, <1>11, <1>12 DEF Next, Rp, St

LEMMA HoldStep == TypeOK /\ WireInv /\ [Next]_vars => HoldInv'
<1> SUFFICES ASSUME TypeOK, WireInv, [Next]_vars PROVE HoldInv'
  OBVIOUS
<1>1. TypeOK /\ WireType /\ HoldInv
  BY DEF WireInv
<1>2. Commands(Now) \subseteq Commands(Now')
  BY <1>1, NothingForgotten
<1>3. CASE Poll
  <2>1. slot' = None
    BY <1>1, <1>3 DEF Poll, HoldInv
  <2>2. pending' # None => pending' \in Commands(Now)
    BY <1>1, <1>3, Genuine DEF Poll, WireType
  <2> QED
    BY <1>2, <1>3, <2>1, <2>2 DEF Poll, HoldInv
<1>4. CASE Handle
  <2>1. pending \in Commands(Now) /\ slot = None
    BY <1>1, <1>4 DEF Handle, HoldInv
  <2>2. Len(pending) = 2 \/ Len(pending) = 3
    BY <2>1, CommandShape
  <2> QED
    BY <1>2, <1>4, <2>1, <2>2 DEF Handle, HoldInv, IsSharedVar, AfterHandling
<1>5. CASE TermLoop
  BY <1>1, <1>5 DEF TermLoop, ClearReady, HoldInv
<1>6. CASE NothingToRender \/ Refresh \/ SyncOverlay \/ PublishFrame
  BY <1>1, <1>6 DEF NothingToRender, Refresh, SyncOverlay, PublishFrame, HoldInv
<1>7. CASE UNCHANGED loopVars
  BY <1>1, <1>2, <1>7 DEF loopVars, HoldInv
<1>8. CASE St \/ UNCHANGED vars
  <2>1. UNCHANGED loopVars
    BY <1>8 DEF St, SendRez, SendKey, NoKey, SendSome, SendRest, AckSeen, TimeoutRetry,
         TimeoutGiveUp, SameFrame, NoteFrame, CopyText, CopyPicture, vars
  <2> QED
    BY <1>7, <2>1
<1> QED
  BY <1>3, <1>4, <1>5, <1>6, <1>8 DEF Next, Rp

LEMMA SendStep == TypeOK /\ WireInv /\ [Next]_vars => SendInv'
<1> SUFFICES ASSUME TypeOK, WireInv, [Next]_vars PROVE SendInv'
  OBVIOUS
<1>1. TypeOK /\ WireType /\ HoldInv /\ SendInv
  BY DEF WireInv
<1>2. CASE SendRez \/ SendKey \/ TimeoutRetry
  <2>1. /\ request' >= 0 /\ payload' = Parameter' /\ attempts' \in 1 .. Attempts
        /\ stPc' = "send" /\ polled' = FALSE
        /\ Current' \in Commands(Now') /\ out' = Encode(Current')
    BY <1>2, NewAttempt
  <2>2. /\ out' # << >> /\ Last(out') = Checksum(Body(Current'))
        /\ \A i \in 1 .. Len(out') - 1 : out'[i].sum = << >>
    BY <2>1, EncodeEnds
  <2>3. attempts' >= 1
    BY <2>1, LinkAssumption
  <2> QED
    BY <2>1, <2>2, <2>3 DEF SendInv, Sending
<1>3. CASE Poll
  BY <1>1, <1>3
  DEF Poll, SendInv, Sending, Parameter, Current, sendVars, historyVars
<1>4. CASE SendSome
  <2>1. PICK n \in 1 .. Len(out) - 1 : out' = SubSeq(out, n + 1, Len(out))
    BY <1>4 DEF SendSome
  <2>2. stPc = "send" /\ out \in Seq(Words(Now)) /\ Len(out) \in Nat
    BY <1>1, <1>4 DEF SendSome, WireType
  <2>3. /\ Len(out') = Len(out) - n /\ out' # << >>
        /\ \A i \in 1 .. Len(out) - n : out'[i] = out[n + i]
    <3>1. n + 1 \in 1 .. Len(out) + 1 /\ Len(out) \in n .. Len(out)
      BY <2>1, <2>2
    <3>2. /\ Len(out') = Len(out) - n
          /\ \A i \in 1 .. Len(out) - n : out'[i] = out[n + i]
      BY <2>1, <2>2, <3>1
    <3>3. Len(out) - n # 0
      BY <2>2
    <3>4. out' # << >>
      BY <3>2, <3>3
    <3> QED
      BY <3>2, <3>4
  <2>4. Last(out') = Last(out)
    <3>1. Len(out) - n \in 1 .. Len(out) - n /\ n + (Len(out) - n) = Len(out)
      BY <2>2
    <3> QED
      BY <2>3, <3>1 DEF Last
  <2>5. ASSUME NEW i \in 1 .. Len(out') - 1 PROVE out'[i].sum = << >>
    <3>1. n + i \in 1 .. Len(out) - 1 /\ i \in 1 .. Len(out) - n
      BY <2>2, <2>3
    <3> QED
      BY <1>1, <2>2, <2>3, <3>1 DEF SendInv
  <2>6. Current' = Current /\ Parameter' = Parameter
    BY <1>4 DEF SendSome, Current, Parameter, historyVars
  <2> QED
    BY <1>1, <1>4, <2>2, <2>3, <2>4, <2>5, <2>6 DEF SendSome, SendInv, Sending
<1>5. CASE SendRest
  <2>1. /\ ring \in Seq(Words(Now)) /\ out \in Seq(Words(Now)) /\ out # << >>
        /\ Last(out) = Checksum(Body(Current)) /\ ~polled /\ ring' = ring \o out
    BY <1>1, <1>5 DEF SendRest, WireType, SendInv
  <2>2. ring' # << >> /\ Last(ring') = Last(out)
    BY <2>1 DEF Last
  <2>3. Current' = Current /\ Parameter' = Parameter
    BY <1>5 DEF SendRest, Current, Parameter, historyVars
  <2> QED
    BY <1>1, <1>5, <2>1, <2>2, <2>3 DEF SendRest, SendInv, Sending, tryVars
<1>6. CASE Handle \/ TermLoop \/ NothingToRender \/ Refresh \/ SyncOverlay \/ PublishFrame
  BY <1>1, <1>6
  DEF Handle, TermLoop, NothingToRender, Refresh, SyncOverlay, PublishFrame, SendInv,
      Sending, Parameter, Current, sendVars, tryVars, historyVars
<1>7. CASE NoKey \/ AckSeen \/ TimeoutGiveUp \/ SameFrame \/ NoteFrame \/ CopyText
             \/ CopyPicture
  BY <1>1, <1>7
  DEF NoKey, AckSeen, TimeoutGiveUp, SameFrame, NoteFrame, CopyText, CopyPicture,
      SendInv, Sending
<1>8. CASE UNCHANGED vars
  BY <1>1, <1>8
  DEF vars, SendInv, Sending, Parameter, Current, sendVars, tryVars, historyVars
<1> QED
  BY <1>2, <1>3, <1>4, <1>5, <1>6, <1>7, <1>8 DEF Next, Rp, St

LEMMA TypeStep == TypeOK /\ WireInv /\ WireInv' /\ [Next]_vars => TypeOK'
<1> SUFFICES ASSUME TypeOK, WireInv, WireInv', [Next]_vars PROVE TypeOK'
  OBVIOUS
<1> USE LinkAssumption
<1>1. TypeOK /\ WireType /\ HoldInv /\ SendInv /\ HoldInv'
  BY DEF WireInv
<1>2. Now.typed = typed /\ Now.rez = screenRez /\ Now'.typed = typed'
  BY DEF Now
<1>3. typed' = typed \/ (SendKey /\ typed' = typed + 1)
  BY DEF Next, Rp, St, vars, historyVars, Poll, Handle, TermLoop, NothingToRender,
     Refresh, SyncOverlay, PublishFrame, SendRez, SendKey, NoKey, SendSome, SendRest,
     AckSeen, TimeoutRetry, TimeoutGiveUp, SameFrame, NoteFrame, CopyText, CopyPicture
<1>4. typed \in 0 .. MaxKeys /\ typed' \in 0 .. MaxKeys /\ typed <= typed'
  BY <1>1, <1>3 DEF TypeOK, SendKey
<1>5. acted' \in 0 .. typed'
  <2>1. CASE TermLoop /\ slot # None
    <3>1. slot \in Commands(Now) /\ Len(slot) = 2
      BY <1>1, <2>1 DEF HoldInv
    <3>2. slot[2] \in 1 .. typed
      BY <1>2, <3>1, CommandShape
    <3> QED
      BY <1>4, <2>1, <3>2 DEF TermLoop
  <2>2. CASE ~(TermLoop /\ slot # None)
    <3>1. acted' = acted
      BY <2>2 DEF Next, Rp, St, vars, historyVars, Poll, Handle, TermLoop,
         NothingToRender, Refresh, SyncOverlay, PublishFrame, SendRez, SendKey, NoKey,
         SendSome, SendRest, AckSeen, TimeoutRetry, TimeoutGiveUp, SameFrame,
         NoteFrame, CopyText, CopyPicture
    <3> QED
      BY <1>1, <1>4, <3>1 DEF TypeOK
  <2> QED
    BY <2>1, <2>2
<1>6. /\ pending' = None \/ Len(pending') \in {2, 3}
      /\ slot' = None \/ slot'[2] \in Key
      /\ pending' = None \/ slot' = None
  <2>1. pending' # None => pending' \in Commands(Now') /\ rpPc' = "handle"
    BY <1>1 DEF HoldInv
  <2>2. slot' # None => slot' \in Commands(Now') /\ rpPc' = "term" /\ Len(slot') = 2
    BY <1>1 DEF HoldInv
  <2>3. pending' # None => Len(pending') = 2 \/ Len(pending') = 3
    BY <2>1, CommandShape
  <2>4. slot' # None => slot'[2] \in 1 .. Now'.typed
    BY <2>2, CommandShape
  <2>5. slot' # None => slot'[2] \in Key
    BY <1>2, <1>4, <2>4 DEF Key
  <2> QED
    BY <2>1, <2>2, <2>3, <2>5
<1>7. rezVar' \in Rez
  <2>1. CASE Handle
    <3>1. pending \in Commands(Now)
      BY <1>1, <2>1 DEF Handle, HoldInv
    <3>2. Len(pending) = 3 => pending[3] = screenRez
      BY <1>2, <3>1, CommandShape
    <3> QED
      BY <1>1, <2>1, <3>2 DEF Handle, IsSharedVar, TypeOK, WireType
  <2>2. CASE ~Handle
    <3>1. rezVar' = rezVar
      BY <2>2 DEF Next, Rp, St, vars, loopVars, Poll, TermLoop, NothingToRender,
         Refresh, SyncOverlay, PublishFrame, SendRez, SendKey, NoKey, SendSome,
         SendRest, AckSeen, TimeoutRetry, TimeoutGiveUp, SameFrame, NoteFrame,
         CopyText, CopyPicture
    <3> QED
      BY <1>1, <3>1 DEF TypeOK
  <2> QED
    BY <2>1, <2>2
<1>8. frame' \in 0 .. 255
  <2>1. frame' = frame \/ frame' = (frame + 1) % 256
    BY DEF Next, Rp, St, vars, frameVars, Poll, Handle, TermLoop, NothingToRender,
       Refresh, SyncOverlay, PublishFrame, SendRez, SendKey, NoKey, SendSome, SendRest,
       AckSeen, TimeoutRetry, TimeoutGiveUp, SameFrame, NoteFrame, CopyText, CopyPicture
  <2>2. frame \in 0 .. 255 /\ (frame + 1) % 256 \in 0 .. 255
    BY <1>1 DEF TypeOK
  <2> QED
    BY <2>1, <2>2
<1>9. menuDrawSeq' \in 0 .. 255
  <2>1. menuDrawSeq' = menuDrawSeq \/ menuDrawSeq' = frame
    BY DEF Next, Rp, St, vars, drawVars, Poll, Handle, TermLoop, NothingToRender,
       Refresh, SyncOverlay, PublishFrame, SendRez, SendKey, NoKey, SendSome, SendRest,
       AckSeen, TimeoutRetry, TimeoutGiveUp, SameFrame, NoteFrame, CopyText, CopyPicture
  <2>2. frame \in 0 .. 255 /\ menuDrawSeq \in 0 .. 255
    BY <1>1 DEF TypeOK
  <2> QED
    BY <2>1, <2>2
<1>10. attempts' \in 0 .. Attempts
  <2>1. CASE SendRez \/ SendKey \/ TimeoutRetry
    <3>1. attempts' \in 1 .. Attempts
      BY <2>1, NewAttempt
    <3> QED
      BY <3>1
  <2>2. CASE ~(SendRez \/ SendKey \/ TimeoutRetry)
    <3>1. attempts' = attempts
      BY <2>2 DEF Next, Rp, St, vars, sendVars, Poll, Handle, TermLoop,
         NothingToRender, Refresh, SyncOverlay, PublishFrame, NoKey,
         SendSome, SendRest, AckSeen, TimeoutGiveUp, SameFrame,
         NoteFrame, CopyText, CopyPicture
    <3> QED
      BY <1>1, <3>1 DEF TypeOK
  <2> QED
    BY <2>1, <2>2
<1>12. (stPc' = "send") = (out' # << >>)
  <2>1. stPc' = "send" => out' # << >>
    BY DEF WireInv, SendInv
  <2>2. out' # << >> => stPc' = "send"
    <3>1. CASE SendRest
      BY <3>1 DEF SendRest
    <3>2. CASE SendSome
      BY <3>2 DEF SendSome
    <3>3. CASE SendRez \/ SendKey \/ TimeoutRetry
      BY <3>3, NewAttempt
    <3>4. CASE ~(SendRest \/ SendSome \/ SendRez \/ SendKey \/ TimeoutRetry)
      <4>1. out' = out /\ (stPc' = stPc \/ stPc # "send")
        BY <3>4 DEF Next, Rp, St, vars, sendVars, Poll, Handle, TermLoop,
           NothingToRender, Refresh, SyncOverlay, PublishFrame, NoKey, AckSeen,
           TimesOut, TimeoutGiveUp, SameFrame, NoteFrame, CopyText, CopyPicture
      <4> QED
        BY <1>1, <4>1 DEF TypeOK
    <3> QED
      BY <3>1, <3>2, <3>3, <3>4
  <2> QED
    BY <2>1, <2>2
<1> QED
  BY <1>4, <1>5, <1>6, <1>7, <1>8, <1>9, <1>10, <1>12 DEF TypeOK

LEMMA WireStep == TypeOK /\ WireInv /\ [Next]_vars => TypeOK' /\ WireInv'
  BY WireTypeStep, HoldStep, SendStep, TypeStep DEF WireInv

-----------------------------------------------------------------------------
(* Keys on the wire.                                                       *)
LEMMA CarriedKey ==
  ASSUME NEW c, NEW q \in Commands(c), NEW k
  PROVE  Carries(Checksum(Body(q)), k) <=> Len(q) = 2 /\ q[2] = k
<1>1. Checksum(Body(q)).sum = Body(q)
  BY DEF Checksum
<1>2. CASE \E t \in 0 .. c.seed, j \in 1 .. c.typed : q = <<t, j>>
  <2>1. PICK t \in 0 .. c.seed, j \in 1 .. c.typed : q = <<t, j>>
    BY <1>2
  <2>2. Len(Body(q)) = 4 /\ Body(q)[4] = Word(j)
    BY <2>1, KeyBody
  <2>3. Word(j) = Word(k) <=> j = k
    BY DEF Word
  <2>4. Len(q) = 2 /\ q[2] = j
    BY <2>1
  <2> QED
    BY <1>1, <2>2, <2>3, <2>4 DEF Carries
<1>3. CASE \E t \in 0 .. c.seed : q = <<t, MenuRez, c.rez>>
  <2>1. PICK t \in 0 .. c.seed : q = <<t, MenuRez, c.rez>>
    BY <1>3
  <2>2. Len(Body(q)) = 5 /\ Len(q) = 3
    BY <2>1, RezBody
  <2> QED
    BY <1>1, <2>2 DEF Carries
<1> QED
  BY <1>2, <1>3 DEF Commands

LEMMA PlainWord ==
  ASSUME NEW w, w.sum = << >>, NEW k PROVE ~Carries(w, k)
  BY DEF Carries

LEMMA TypedKey ==
  ASSUME NEW c, NEW w \in Words(c), NEW k, Carries(w, k)
  PROVE  k \in 1 .. c.typed
<1>1. PICK q \in Commands(c) : w = Checksum(Body(q))
  BY WordShape, PlainWord
<1>2. Len(q) = 2 /\ q[2] = k
  BY <1>1, CarriedKey
<1> QED
  BY <1>2, CommandShape

LEMMA RingFinite ==
  ASSUME WireType, NEW k
  PROVE  /\ IsFiniteSet(InRing(k)) /\ Cardinality(InRing(k)) \in Nat
         /\ Cardinality(InRing(k)) = 0 <=> InRing(k) = {}
<1>1. Len(ring) \in Nat
  BY DEF WireType
<1>2. IsFiniteSet(1 .. Len(ring))
  BY <1>1, FS_Interval
<1>3. IsFiniteSet(InRing(k))
  BY <1>2, FS_Subset DEF InRing
<1> QED
  BY <1>3, FS_CardinalityType, FS_EmptySet

LEMMA KnownKeys ==
  ASSUME TypeOK, WireInv, NEW k \in Key
  PROVE  /\ InRing(k) # {} => k <= typed
         /\ Taken(k) => k <= typed
<1>1. Now.typed = typed /\ typed \in Nat
  BY LinkAssumption DEF Now, TypeOK
<1>2. InRing(k) # {} => k <= typed
  <2>1. SUFFICES ASSUME NEW i \in InRing(k) PROVE k <= typed
    OBVIOUS
  <2>2. ring[i] \in Words(Now) /\ Carries(ring[i], k)
    BY DEF InRing, WireInv, WireType
  <2> QED
    BY <1>1, <2>2, TypedKey
<1>3. Taken(k) => k <= typed
  <2>1. SUFFICES ASSUME Taken(k) PROVE k <= typed
    OBVIOUS
  <2>2. CASE Len(pending) = 2 /\ pending[2] = k
    <3>1. pending \in Commands(Now)
      BY <2>2 DEF WireInv, HoldInv, None
    <3> QED
      BY <1>1, <2>2, <3>1, CommandShape
  <2>3. CASE Len(slot) = 2 /\ slot[2] = k
    <3>1. slot \in Commands(Now)
      BY <2>3 DEF WireInv, HoldInv, None
    <3> QED
      BY <1>1, <2>3, <3>1, CommandShape
  <2> QED
    BY <2>1, <2>2, <2>3 DEF Taken
<1> QED
  BY <1>2, <1>3

(* What a turn takes from the ring was in it.                              *)
LEMMA PollTakes ==
  ASSUME TypeOK, WireInv, Poll
  PROVE  /\ slot' = None /\ slot = None /\ pending = None
         /\ \A k : InRing(k)' = {}
         /\ pending' # None => /\ pending' \in Commands(Now)
                               /\ \E i \in 1 .. Len(ring) : ring[i] = Checksum(Body(pending'))
         /\ \A k : Taken(k)' <=> Len(pending') = 2 /\ pending'[2] = k
         /\ \A k : Taken(k)' => InRing(k) # {}
<1>1. slot' = None /\ slot = None /\ pending = None
  BY DEF Poll, WireInv, HoldInv
<1>2. \A k : InRing(k)' = {}
  BY DEF Poll, InRing
<1>3. pending' # None => /\ pending' \in Commands(Now)
                         /\ \E i \in 1 .. Len(ring) : ring[i] = Checksum(Body(pending'))
  BY Genuine DEF Poll, WireInv, WireType
<1>4. \A k : Taken(k)' <=> Len(pending') = 2 /\ pending'[2] = k
  BY <1>1 DEF Taken, None
<1>5. ASSUME NEW k, Taken(k)' PROVE InRing(k) # {}
  <2>1. pending' # None /\ Len(pending') = 2 /\ pending'[2] = k
    BY <1>4, <1>5 DEF None
  <2>2. PICK i \in 1 .. Len(ring) : ring[i] = Checksum(Body(pending'))
    BY <1>3, <2>1
  <2>3. Carries(ring[i], k)
    BY <1>3, <2>1, <2>2, CarriedKey
  <2> QED
    BY <2>3 DEF InRing
<1> QED
  BY <1>1, <1>2, <1>3, <1>4, <1>5

(* What is put on the bus carries a key in its last word only.             *)
LEMMA SendSomeCarries ==
  ASSUME TypeOK, WireInv, SendSome, NEW k
  PROVE  InRing(k)' = InRing(k)
<1>1. PICK n \in 1 .. Len(out) - 1 : ring' = ring \o SubSeq(out, 1, n)
  BY DEF SendSome
<1>2. /\ ring \in Seq(Words(Now)) /\ out \in Seq(Words(Now))
      /\ \A i \in 1 .. Len(out) - 1 : out[i].sum = << >>
  BY DEF SendSome, WireInv, WireType, SendInv
<1>3. SubSeq(out, 1, n) \in Seq(Words(Now)) /\ Len(SubSeq(out, 1, n)) = n
      /\ \A i \in 1 .. n : SubSeq(out, 1, n)[i] = out[i]
  BY <1>2
<1>4. /\ Len(ring) \in Nat /\ Len(ring') = Len(ring) + n
      /\ \A i \in 1 .. Len(ring) : ring'[i] = ring[i]
      /\ \A i \in Len(ring) + 1 .. Len(ring) + n : ring'[i] = out[i - Len(ring)]
  BY <1>1, <1>2, <1>3
<1>5. ASSUME NEW i \in Len(ring) + 1 .. Len(ring) + n PROVE ~Carries(ring'[i], k)
  <2>1. i - Len(ring) \in 1 .. Len(out) - 1
    BY <1>2, <1>4
  <2>2. ring'[i].sum = << >>
    BY <1>2, <1>4, <2>1
  <2> QED
    BY <2>2, PlainWord
<1> QED
  BY <1>4, <1>5 DEF InRing

LEMMA CurrentCommand ==
  ASSUME TypeOK, WireInv, Sending
  PROVE  Current \in Commands(Now)
<1>1. Now.seed = seed /\ Now.typed = typed /\ Now.rez = screenRez
  BY DEF Now
<1>2. request \in 0 .. seed /\ typed \in Nat
  BY LinkAssumption DEF WireInv, WireType, SendInv, TypeOK
<1> QED
  BY <1>1, <1>2 DEF Current, Commands

LEMMA CurrentCarries ==
  ASSUME TypeOK, WireInv, Sending, NEW k \in Key
  PROVE  Carries(Checksum(Body(Current)), k) <=> typed = k
<1>1. Carries(Checksum(Body(Current)), k) <=> Len(Current) = 2 /\ Current[2] = k
  BY CurrentCommand, CarriedKey
<1>2. CASE typed = 0
  BY <1>1, <1>2, LinkAssumption DEF Current, Key
<1>3. CASE typed # 0
  BY <1>1, <1>3 DEF Current
<1> QED
  BY <1>2, <1>3

LEMMA SendRestCarries ==
  ASSUME TypeOK, WireInv, SendRest, NEW k \in Key
  PROVE  InRing(k)' = InRing(k) \cup (IF typed = k THEN {Len(ring')} ELSE {})
         /\ Len(ring') \notin InRing(k)
<1>1. /\ ring \in Seq(Words(Now)) /\ out \in Seq(Words(Now)) /\ out # << >>
      /\ \A i \in 1 .. Len(out) - 1 : out[i].sum = << >>
      /\ Last(out) = Checksum(Body(Current)) /\ Sending
      /\ ring' = ring \o out
  BY DEF SendRest, WireInv, WireType, SendInv, Sending
<1>2. PICK n \in Nat : n = Len(ring)
  BY <1>1
<1>3. PICK m \in Nat \ {0} : m = Len(out)
  BY <1>1
<1>4. /\ Len(ring') = n + m
      /\ \A i \in 1 .. n : ring'[i] = ring[i]
      /\ \A i \in n + 1 .. n + m : ring'[i] = out[i - n]
  BY <1>1, <1>2, <1>3
<1>5. ASSUME NEW i \in n + 1 .. n + m - 1 PROVE ~Carries(ring'[i], k)
  <2>1. i - n \in 1 .. m - 1 /\ i \in n + 1 .. n + m
    OBVIOUS
  <2>2. ring'[i].sum = << >>
    BY <1>1, <1>3, <1>4, <2>1
  <2> QED
    BY <2>2, PlainWord
<1>6. Carries(ring'[n + m], k) <=> typed = k
  <2>1. ring'[n + m] = out[m]
    <3>1. n + m \in n + 1 .. n + m /\ n + m - n = m
      OBVIOUS
    <3> QED
      BY <1>4, <3>1
  <2> QED
    BY <1>1, <1>3, <2>1, CurrentCarries DEF Last
<1>7. n + m \notin 1 .. n
  OBVIOUS
<1>8. 1 .. n + m = (1 .. n) \cup (n + 1 .. n + m - 1) \cup {n + m}
  OBVIOUS
<1>9. InRing(k) = {i \in 1 .. n : Carries(ring'[i], k)}
  BY <1>2, <1>4 DEF InRing
<1>10. InRing(k)' = {i \in 1 .. n + m : Carries(ring'[i], k)}
  BY <1>4 DEF InRing
<1> QED
  BY <1>4, <1>5, <1>6, <1>7, <1>8, <1>9, <1>10

LEMMA HandleTakes ==
  ASSUME TypeOK, WireInv, Handle
  PROVE  \A k : Taken(k)' <=> Taken(k)
<1>1. slot = None /\ pending \in Commands(Now)
  BY DEF Handle, WireInv, HoldInv
<1>2. Len(pending) = 2 \/ Len(pending) = 3
  BY <1>1, CommandShape
<1>3. pending' = None /\ slot' = IF Len(pending) = 2 THEN pending ELSE None
  BY <1>1, <1>2 DEF Handle, IsSharedVar
<1> QED
  BY <1>1, <1>2, <1>3 DEF Taken, None

LEMMA TermTakes ==
  ASSUME TypeOK, WireInv, TermLoop
  PROVE  /\ \A k : ~Taken(k)'
         /\ \A k : Taken(k) <=> slot # None /\ slot[2] = k
         /\ slot # None => slot[2] \in Key
<1>1. pending = None /\ pending' = None /\ slot' = None
  BY DEF TermLoop, ClearReady, WireInv, HoldInv
<1>2. slot # None => Len(slot) = 2
  BY DEF WireInv, HoldInv
<1> QED
  BY <1>1, <1>2 DEF Taken, None, TypeOK

(* Whatever else happens leaves the keys where they are.                   *)
LEMMA Elsewhere ==
  ASSUME [Next]_vars, ~Poll, ~Handle, ~TermLoop, ~SendSome, ~SendRest
  PROVE  /\ ring' = ring /\ pending' = pending /\ slot' = slot /\ times' = times
         /\ acted' = acted
         /\ \A k : InRing(k)' = InRing(k) /\ (Taken(k)' <=> Taken(k))
<1>1. /\ ring' = ring /\ pending' = pending /\ slot' = slot /\ times' = times
      /\ acted' = acted
  BY DEF Next, Rp, St, vars, loopVars, historyVars, NothingToRender, Refresh,
     SyncOverlay, PublishFrame, SendRez, SendKey, NoKey, AckSeen, TimeoutRetry,
     TimeoutGiveUp, SameFrame, NoteFrame, CopyText, CopyPicture
<1> QED
  BY <1>1 DEF InRing, Taken

LEMMA OrderStep == TypeOK /\ WireInv /\ OrderInv /\ [Next]_vars => OrderInv'
<1> SUFFICES ASSUME TypeOK, WireInv, OrderInv, [Next]_vars PROVE OrderInv'
  OBVIOUS
<1> USE DEF OrderInv
<1>1. typed \in Nat /\ acted \in 0 .. typed
  BY LinkAssumption DEF TypeOK
<1>2. \A k \in Key : k \in Nat
  BY DEF Key
<1>3. CASE Poll
  BY <1>3, PollTakes DEF Poll, historyVars
<1>4. CASE Handle
  <2>1. \A k : InRing(k)' = InRing(k)
    BY <1>4 DEF Handle, InRing
  <2> QED
    BY <1>4, <2>1, HandleTakes DEF Handle, historyVars
<1>5. CASE TermLoop
  <2>1. \A k : InRing(k)' = InRing(k)
    BY <1>5 DEF TermLoop, InRing
  <2>2. acted' = IF slot # None THEN slot[2] ELSE acted
    BY <1>5 DEF TermLoop
  <2> QED
    BY <1>5, <2>1, <2>2, TermTakes
<1>6. CASE SendSome
  <2>1. \A k : Taken(k)' <=> Taken(k)
    BY <1>6 DEF SendSome, loopVars, Taken
  <2> QED
    BY <1>6, <2>1, SendSomeCarries DEF SendSome, historyVars
<1>7. CASE SendRest
  <2>1. acted' = acted /\ \A k : Taken(k)' <=> Taken(k)
    BY <1>7 DEF SendRest, loopVars, Taken, historyVars
  <2>2. \A k \in Key : InRing(k)' # {} => InRing(k) # {} \/ typed = k
    BY <1>7, SendRestCarries
  <2>3. \A k \in Key : Taken(k) => k <= typed
    BY KnownKeys
  <2>4. ASSUME NEW k \in Key, InRing(k)' # {} \/ Taken(k)' PROVE acted' <= k
    BY <1>1, <1>2, <2>1, <2>2, <2>4
  <2>5. ASSUME NEW j \in Key, NEW k \in Key, Taken(j)', InRing(k)' # {} PROVE j <= k
    BY <1>1, <1>2, <2>1, <2>2, <2>3, <2>5
  <2> QED
    BY <2>4, <2>5
<1>8. CASE ~Poll /\ ~Handle /\ ~TermLoop /\ ~SendSome /\ ~SendRest
  BY <1>8, Elsewhere
<1> QED
  BY <1>3, <1>4, <1>5, <1>6, <1>7, <1>8

-----------------------------------------------------------------------------
(* How often a key acts.                                                   *)
LEMMA OneMore ==
  ASSUME NEW S, IsFiniteSet(S), NEW x, x \notin S
  PROVE  Cardinality(S \cup {x}) = Cardinality(S) + 1
  BY FS_AddElement

LEMMA CopiesSum ==
  ASSUME TypeOK, WireInv, NEW k \in Key
  PROVE  /\ times[k] \in Nat /\ late[k] \in Nat /\ Cardinality(InRing(k)) \in Nat
         /\ Kept(k) \in {0, 1} /\ InSend(k) \in {0, 1} /\ Copies(k) \in Nat
<1>1. /\ times[k] \in Nat /\ late[k] \in Nat /\ Cardinality(InRing(k)) \in Nat
      /\ Kept(k) \in {0, 1} /\ InSend(k) \in {0, 1}
  BY RingFinite, LinkAssumption DEF WireInv, WireType, Kept, InSend, Sent, Key
<1> QED
  BY <1>1 DEF Copies

(* As long as the copies do not change.                                    *)
LEMMA SameCopies ==
  ASSUME TypeOK, WireInv, CopiesInv,
         \A k \in Key : InRing(k)' = InRing(k) /\ (Taken(k)' <=> Taken(k)),
         times' = times, typed' = typed, stPc' = "send" <=> stPc = "send",
         \A k \in Key : late'[k] \in Nat /\ late[k] <= late'[k]
  PROVE  /\ \A k \in Key : Copies(k)' = Copies(k)
         /\ \A k \in Key : Copies(k)' <= 1 + late'[k] /\ (k > typed' => times'[k] = 0)
<1>1. \A k \in Key : Copies(k)' = Copies(k)
  BY DEF Copies, Kept, InSend
<1>2. ASSUME NEW k \in Key PROVE Copies(k)' <= 1 + late'[k] /\ (k > typed' => times'[k] = 0)
  <2>1. Copies(k) \in Nat /\ late[k] \in Nat /\ Copies(k) <= 1 + late[k]
    BY CopiesSum DEF CopiesInv
  <2>2. late'[k] \in Nat /\ late[k] <= late'[k]
    OBVIOUS
  <2>3. Copies(k) <= 1 + late'[k]
    BY <2>1, <2>2
  <2> QED
    BY <1>1, <2>3 DEF CopiesInv
<1> QED
  BY <1>1, <1>2

LEMMA PollCopies == TypeOK /\ WireInv /\ CopiesInv /\ Poll => CopiesInv'
<1> SUFFICES ASSUME TypeOK, WireInv, CopiesInv, Poll PROVE CopiesInv'
  OBVIOUS
<1>1. /\ rpPc = "poll" /\ times' = times /\ late' = late /\ typed' = typed
      /\ stPc' = stPc /\ request' = request /\ token' = token /\ seed' = seed
      /\ polled' = (stPc = "wait")
      /\ rpPc' = IF pending' = None THEN "term" ELSE "handle"
      /\ typed \in Nat
  BY LinkAssumption DEF Poll, historyVars, sendVars, tokenVars, TypeOK
<1>2. ASSUME NEW k \in Key
      PROVE  /\ Copies(k)' = times[k] + Kept(k)' + InSend(k)
             /\ Kept(k) = 0
  <2>1. Cardinality({}) = 0
    BY FS_EmptySet
  <2>2. InRing(k)' = {}
    BY PollTakes
  <2>3. Kept(k) = 0
    BY PollTakes DEF Kept, Taken, None
  <2>4. Copies(k)' = times[k] + 0 + Kept(k)' + InSend(k)
    BY <1>1, <2>1, <2>2 DEF Copies, InSend
  <2>5. times[k] \in Nat
    BY CopiesSum
  <2> QED
    BY <2>3, <2>4, <2>5
<1>3. ASSUME NEW k \in Key PROVE Copies(k)' <= 1 + late[k]
  <2>1. /\ times[k] \in Nat /\ late[k] \in Nat /\ InSend(k) \in {0, 1}
        /\ Copies(k) = times[k] + Cardinality(InRing(k)) + 0 + InSend(k)
        /\ Copies(k) <= 1 + late[k] /\ Cardinality(InRing(k)) \in Nat
    BY <1>2, CopiesSum DEF Copies, CopiesInv
  <2>2. CASE Taken(k)'
    <3>1. Cardinality(InRing(k)) # 0
      BY <2>2, PollTakes, RingFinite DEF WireInv
    <3>2. Copies(k)' = times[k] + 1 + InSend(k)
      BY <1>2, <2>2 DEF Kept
    <3> QED
      BY <2>1, <3>1, <3>2
  <2>3. CASE ~Taken(k)'
    <3>1. Copies(k)' = times[k] + 0 + InSend(k)
      BY <1>2, <2>3 DEF Kept
    <3> QED
      BY <2>1, <3>1
  <2> QED
    BY <2>2, <2>3
<1>4. Accounted'
  <2> SUFFICES ASSUME stPc = "wait", NEW k \in Key, typed = k
               PROVE  \/ Copies(k)' <= late[k]
                      \/ IF rpPc' = "handle" THEN pending'[1] = request ELSE Acked
    BY <1>1 DEF Accounted, Acked
  <2>1. k \in Key
    OBVIOUS
  <2>2. PICK n \in Nat : n = Cardinality(InRing(k))
    BY <2>1, CopiesSum
  <2>3. /\ times[k] \in Nat /\ late[k] \in Nat
        /\ times[k] + n <= 1 + late[k]
        /\ InSend(k) = 0
    <3>1. InSend(k) = 0 /\ Kept(k) = 0
      BY <1>2, <2>1 DEF InSend
    <3>2. times[k] \in Nat /\ late[k] \in Nat
      BY <2>1, CopiesSum
    <3>3. Copies(k) = times[k] + n + 0 + 0 /\ Copies(k) <= 1 + late[k]
      BY <2>1, <2>2, <3>1 DEF Copies, CopiesInv
    <3> QED
      BY <3>1, <3>2, <3>3
  <2>4. CASE polled
    <3>1. Acked \/ Copies(k) <= late[k]
      BY <1>1, <2>4 DEF CopiesInv, Accounted
    <3>2. ring = << >>
      BY <2>4 DEF WireInv, SendInv
    <3>3. pending' = None
      BY <3>2, NothingKept DEF Poll
    <3>4. ~Taken(k)' /\ InRing(k) = {}
      BY <3>2, <3>3, PollTakes DEF None, InRing
    <3>5. Copies(k)' = Copies(k)
      <4>1. n = 0
        BY <2>2, <3>4, FS_EmptySet
      <4>2. Copies(k)' = times[k] + 0 + 0
        BY <1>2, <2>1, <2>3, <3>4 DEF Kept
      <4>3. Copies(k) = times[k] + 0 + 0 + 0
        BY <1>2, <2>1, <2>2, <2>3, <4>1 DEF Copies
      <4> QED
        BY <2>3, <4>2, <4>3
    <3> QED
      BY <1>1, <3>1, <3>3, <3>5
  <2>5. CASE ~polled
    <3>1. Len(ring) \in Nat \ {0} /\ ring[Len(ring)] = Checksum(Body(Current))
      BY <2>5 DEF WireInv, WireType, SendInv, Last
    <3>2. Len(ring) \in InRing(k)
      <4>1. Carries(ring[Len(ring)], k)
        BY <2>1, <3>1, CurrentCarries DEF Sending
      <4> QED
        BY <3>1, <4>1 DEF InRing
    <3>3. n # 0
      BY <2>2, <3>2, RingFinite DEF WireInv
    <3>4. CASE ~Taken(k)'
      <4>1. Copies(k)' = times[k] + 0 + 0
        BY <1>2, <2>1, <2>3, <3>4 DEF Kept
      <4>2. Copies(k)' <= late[k]
        BY <2>3, <3>3, <4>1
      <4> QED
        BY <4>2
    <3>5. CASE Taken(k)' /\ pending'[1] = request
      BY <1>1, <3>5, PollTakes DEF None
    <3>6. CASE Taken(k)' /\ pending'[1] # request
      <4>1. PICK i \in 1 .. Len(ring) :
              /\ pending' \in Commands(Now) /\ Len(pending') = 2 /\ pending'[2] = k
              /\ ring[i] = Checksum(Body(pending'))
        BY <3>6, PollTakes DEF None
      <4>2. i \in InRing(k)
        BY <4>1, CarriedKey DEF InRing
      <4>3. i # Len(ring)
        <5>1. Parameters(Body(pending')) = pending' /\ Parameters(Body(Current)) = Current
          BY <4>1, BodyShape, CurrentCommand DEF Sending
        <5>2. Current[1] = request
          BY DEF Current
        <5>3. Checksum(Body(pending')).sum = Body(pending')
              /\ Checksum(Body(Current)).sum = Body(Current)
          BY DEF Checksum
        <5> QED
          BY <3>1, <3>6, <4>1, <5>1, <5>2, <5>3
      <4>4. n > 1
        <5>1. IsFiniteSet(InRing(k)) /\ {i} \cup {Len(ring)} \subseteq InRing(k)
          BY <3>2, <4>2, RingFinite DEF WireInv
        <5>2. Cardinality({i} \cup {Len(ring)}) = 1 + 1
          <6>1. Cardinality({i}) = 1 /\ IsFiniteSet({i})
            BY FS_Singleton
          <6>2. Len(ring) \notin {i}
            BY <4>3
          <6>3. Cardinality({i} \cup {Len(ring)}) = Cardinality({i}) + 1
            BY <6>1, <6>2, OneMore
          <6> QED
            BY <6>1, <6>3
        <5>3. 2 <= n
          BY <2>2, <5>1, <5>2, FS_Subset
        <5> QED
          BY <5>3
      <4>5. Copies(k)' = times[k] + 1 + 0
        BY <1>2, <2>1, <2>3, <3>6 DEF Kept
      <4>6. Copies(k)' <= late[k]
        BY <2>3, <4>4, <4>5
      <4> QED
        BY <4>6
    <3> QED
      BY <3>4, <3>5, <3>6
  <2> QED
    BY <2>4, <2>5
<1>5. \A k \in Key : k > typed' => times'[k] = 0
  BY <1>1 DEF CopiesInv
<1> QED
  BY <1>1, <1>3, <1>4, <1>5 DEF CopiesInv, Accounted

(* Handling a command moves its key to the terminal, and answers.          *)
LEMMA HandleCopies == TypeOK /\ WireInv /\ CopiesInv /\ Handle => CopiesInv'
<1> SUFFICES ASSUME TypeOK, WireInv, CopiesInv, Handle PROVE CopiesInv'
  OBVIOUS
<1>1. /\ rpPc = "handle" /\ rpPc' = "term" /\ times' = times /\ late' = late
      /\ typed' = typed /\ stPc' = stPc /\ request' = request /\ polled' = polled
      /\ ring' = ring /\ token' = pending[1] /\ seed' = seed + 1
  BY DEF Handle, AfterHandling, historyVars, sendVars, tryVars
<1>2. \A k \in Key : InRing(k)' = InRing(k) /\ (Taken(k)' <=> Taken(k))
  BY <1>1, HandleTakes DEF InRing
<1>3. \A k \in Key : late[k] \in Nat
  BY CopiesSum
<1>4. /\ \A k \in Key : Copies(k)' = Copies(k)
      /\ \A k \in Key : Copies(k)' <= 1 + late'[k] /\ (k > typed' => times'[k] = 0)
  <2>1. \A k \in Key : late'[k] \in Nat /\ late[k] <= late'[k]
    BY <1>1, <1>3
  <2> QED
    BY <1>1, <1>2, <2>1, SameCopies
<1>5. Accounted'
  <2> SUFFICES ASSUME stPc = "wait", polled, NEW k \in Key, typed = k
               PROVE  Copies(k)' <= late[k] \/ Acked'
    BY <1>1 DEF Accounted
  <2>1. Copies(k) <= late[k] \/ pending[1] = request
    BY <1>1 DEF CopiesInv, Accounted
  <2>2. request # seed + 1
    BY DEF WireInv, WireType
  <2> QED
    BY <1>1, <1>4, <2>1, <2>2 DEF Acked
<1> QED
  BY <1>4, <1>5 DEF CopiesInv

(* The terminal hands its key over once.                                   *)
LEMMA TermCopies == TypeOK /\ WireInv /\ CopiesInv /\ TermLoop => CopiesInv'
<1> SUFFICES ASSUME TypeOK, WireInv, CopiesInv, TermLoop PROVE CopiesInv'
  OBVIOUS
<1>1. /\ rpPc = "term" /\ rpPc' = "render" /\ late' = late
      /\ typed' = typed /\ stPc' = stPc /\ request' = request /\ polled' = polled
      /\ ring' = ring /\ token' = token /\ seed' = seed
  BY DEF TermLoop, tokenVars, sendVars, tryVars
<1>2. ASSUME NEW k \in Key
      PROVE  /\ Copies(k)' = Copies(k)
             /\ k > typed => times'[k] = 0
  <2>1. InRing(k)' = InRing(k) /\ InSend(k)' = InSend(k) /\ Kept(k)' = 0
    BY <1>1, TermTakes DEF InRing, InSend, Kept
  <2>2. PICK c \in Nat : c = Cardinality(InRing(k))
    BY CopiesSum
  <2>3. PICK s \in {0, 1} : s = InSend(k)
    BY CopiesSum
  <2>4. PICK t \in Nat : t = times[k]
    BY CopiesSum
  <2>5. Copies(k)' = times'[k] + c + 0 + s
    BY <2>1, <2>2, <2>3 DEF Copies
  <2>6. CASE Taken(k)
    <3>1. slot # None /\ slot[2] = k
      BY <2>6, TermTakes
    <3>2. times'[k] = t + 1
      BY <2>4, <3>1 DEF TermLoop
    <3>3. Copies(k) = t + c + 1 + s
      BY <2>2, <2>3, <2>4, <2>6 DEF Copies, Kept
    <3>4. t + 1 + c + 0 + s = t + c + 1 + s
      BY <2>2, <2>3, <2>4
    <3>5. k <= typed /\ typed \in Nat /\ k \in Nat
      BY <2>6, KnownKeys, LinkAssumption DEF TypeOK, Key
    <3>6. Copies(k)' = t + 1 + c + 0 + s
      BY <2>5, <3>2
    <3>7. Copies(k)' = Copies(k)
      BY <3>3, <3>4, <3>6
    <3>8. ~(k > typed)
      BY <3>5
    <3> QED
      BY <3>7, <3>8
  <2>7. CASE ~Taken(k)
    <3>1. slot = None \/ slot[2] # k
      BY <2>7, TermTakes
    <3>2. times'[k] = times[k]
      BY <3>1 DEF TermLoop, WireInv, WireType
    <3>3. Copies(k) = times[k] + c + 0 + s
      BY <2>2, <2>3, <2>7 DEF Copies, Kept
    <3>4. Copies(k)' = Copies(k)
      BY <2>5, <3>2, <3>3
    <3> QED
      BY <3>2, <3>4 DEF CopiesInv
  <2> QED
    BY <2>6, <2>7
<1>3. Accounted'
  BY <1>1, <1>2 DEF CopiesInv, Accounted, Acked
<1> QED
  BY <1>1, <1>2, <1>3 DEF CopiesInv

(* A key moves from the sender to the ring with its checksum.              *)
LEMMA SendCopies == TypeOK /\ WireInv /\ CopiesInv /\ (SendSome \/ SendRest) => CopiesInv'
<1> SUFFICES ASSUME TypeOK, WireInv, CopiesInv, SendSome \/ SendRest PROVE CopiesInv'
  OBVIOUS
<1>1. /\ stPc = "send" /\ ~polled' /\ times' = times /\ late' = late /\ typed' = typed
      /\ pending' = pending /\ slot' = slot
  BY DEF SendSome, SendRest, WireInv, SendInv, loopVars, historyVars, tryVars
<1>2. \A k \in Key : (Taken(k)' <=> Taken(k))
  BY <1>1 DEF Taken
<1>3. Accounted'
  BY <1>1 DEF Accounted
<1>4. CASE SendSome
  <2>1. \A k \in Key : InRing(k)' = InRing(k)
    BY <1>4, SendSomeCarries
  <2>2. \A k \in Key : late'[k] \in Nat /\ late[k] <= late'[k]
    BY <1>1, CopiesSum
  <2>3. stPc' = "send"
    BY <1>1, <1>4 DEF SendSome
  <2> QED
    BY <1>1, <1>2, <1>3, <2>1, <2>2, <2>3, SameCopies DEF CopiesInv
<1>5. CASE SendRest
  <2>1. ASSUME NEW k \in Key PROVE Copies(k)' = Copies(k)
    <3>1. PICK c \in Nat : c = Cardinality(InRing(k))
      BY CopiesSum
    <3>2. PICK h \in {0, 1} : h = Kept(k)
      BY CopiesSum
    <3>3. PICK t \in Nat : t = times[k]
      BY CopiesSum
    <3>4. Kept(k)' = h /\ times'[k] = t /\ InSend(k)' = 0
      BY <1>1, <1>2, <1>5, <3>2, <3>3 DEF Kept, InSend, SendRest
    <3>5. CASE typed = k
      <4>1. Cardinality(InRing(k)') = c + 1
        BY <1>5, <3>1, <3>5, SendRestCarries, RingFinite, OneMore DEF WireInv
      <4>2. Copies(k)' = t + (c + 1) + h + 0
        BY <3>4, <4>1 DEF Copies
      <4>3. Copies(k) = t + c + h + 1
        BY <1>1, <3>1, <3>2, <3>3, <3>5 DEF Copies, InSend
      <4> QED
        BY <3>1, <3>2, <3>3, <4>2, <4>3
    <3>6. CASE typed # k
      <4>1. Cardinality(InRing(k)') = c
        BY <1>5, <3>1, <3>6, SendRestCarries
      <4>2. Copies(k)' = t + c + h + 0
        BY <3>4, <4>1 DEF Copies
      <4>3. Copies(k) = t + c + h + 0
        BY <1>1, <3>1, <3>2, <3>3, <3>6 DEF Copies, InSend
      <4> QED
        BY <4>2, <4>3
    <3> QED
      BY <3>5, <3>6
  <2> QED
    BY <1>1, <1>3, <2>1 DEF CopiesInv
<1> QED
  BY <1>4, <1>5

(* An attempt adds a copy: the first of a new key, or one more of a key    *)
(* that met a long turn, or whose last copy was lost.                      *)
LEMMA AttemptCopies ==
  TypeOK /\ WireInv /\ CopiesInv /\ (SendRez \/ SendKey \/ TimeoutRetry) => CopiesInv'
<1> SUFFICES ASSUME TypeOK, WireInv, CopiesInv, SendRez \/ SendKey \/ TimeoutRetry
             PROVE  CopiesInv'
  OBVIOUS
<1>1. stPc' = "send" /\ stPc # "send" /\ times' = times /\ pending' = pending /\ slot' = slot
      /\ ring' = ring
  BY DEF SendRez, SendKey, TimeoutRetry, First, Attempt, TimesOut, loopVars, historyVars
<1>2. \A k \in Key : Taken(k)' <=> Taken(k)
  BY <1>1 DEF Taken
<1>3. \A k \in Key : InRing(k)' = InRing(k)
  BY <1>1 DEF InRing
<1>4. Accounted'
  BY <1>1 DEF Accounted
<1>5. typed \in Nat /\ \A k \in Key : k \in Nat \ {0}
  BY LinkAssumption DEF TypeOK, Key
<1>6. ASSUME NEW k \in Key
      PROVE  /\ Copies(k)' = IF typed' = k THEN Copies(k) + 1 ELSE Copies(k)
             /\ times'[k] = times[k]
  <2>1. PICK c \in Nat : c = Copies(k)
    BY CopiesSum
  <2>2. InSend(k)' = (IF typed' = k THEN 1 ELSE 0) /\ InSend(k) = 0
    BY <1>1 DEF InSend
  <2>3. /\ times[k] \in Nat /\ Cardinality(InRing(k)) \in Nat /\ Kept(k) \in {0, 1}
    BY CopiesSum
  <2>4. c = times[k] + Cardinality(InRing(k)) + Kept(k) + 0
    BY <2>1, <2>2 DEF Copies
  <2>5. Copies(k)' = times[k] + Cardinality(InRing(k)) + Kept(k) + (IF typed' = k THEN 1 ELSE 0)
    BY <1>1, <1>2, <1>3, <2>2 DEF Copies, Kept
  <2> QED
    BY <1>1, <2>1, <2>3, <2>4, <2>5
<1>7. ASSUME NEW k \in Key
      PROVE  /\ Copies(k) \in Nat /\ late[k] \in Nat /\ Copies(k) <= 1 + late[k]
             /\ k > typed => times[k] = 0
  BY CopiesSum DEF CopiesInv
<1>8. CASE SendRez
  <2>1. typed' = typed /\ typed = 0 /\ late' = late
    BY <1>8 DEF SendRez, WireInv, SendInv, historyVars
  <2>2. ASSUME NEW k \in Key PROVE Copies(k)' <= 1 + late'[k] /\ (k > typed' => times'[k] = 0)
    BY <1>5, <1>6, <1>7, <2>1
  <2> QED
    BY <1>4, <2>2 DEF CopiesInv
<1>9. CASE SendKey
  <2>1. typed' = typed + 1 /\ late' = late
    BY <1>9 DEF SendKey
  <2>2. ASSUME NEW k \in Key PROVE Copies(k)' <= 1 + late'[k] /\ (k > typed' => times'[k] = 0)
    <3>1. CASE k = typed + 1
      <4>1. InRing(k) = {} /\ ~Taken(k)
        BY <1>5, <3>1, KnownKeys
      <4>2. times[k] = 0
        BY <1>5, <1>7, <3>1
      <4>3. Copies(k) = 0 + 0 + 0 + 0
        BY <1>1, <4>1, <4>2, FS_EmptySet DEF Copies, Kept, InSend
      <4>4. Copies(k)' = 1
        BY <1>6, <2>1, <3>1, <4>3
      <4> QED
        BY <1>6, <1>7, <2>1, <4>2, <4>4
    <3>2. CASE k # typed + 1
      <4>1. Copies(k)' = Copies(k) /\ times'[k] = times[k]
        BY <1>6, <2>1, <3>2
      <4>2. k > typed + 1 => k > typed
        BY <1>5
      <4> QED
        BY <1>7, <2>1, <4>1, <4>2
    <3> QED
      BY <3>1, <3>2
  <2> QED
    BY <1>4, <2>2 DEF CopiesInv
<1>10. CASE TimeoutRetry
  <2>1. typed' = typed /\ TimesOut /\ stPc = "wait" /\ ~Acked
    BY <1>10 DEF TimeoutRetry, TimesOut
  <2>2. ASSUME NEW k \in Key PROVE Copies(k)' <= 1 + late'[k] /\ (k > typed' => times'[k] = 0)
    <3>1. CASE typed = k
      <4>1. Copies(k)' = Copies(k) + 1
        BY <1>6, <2>1, <3>1
      <4>2. CASE late' = [late EXCEPT ![typed] = @ + 1]
        <5>1. k \in Sent /\ late \in [Sent -> Nat]
          BY LinkAssumption DEF Sent, Key, WireInv, WireType
        <5>2. late'[k] = late[k] + 1
          BY <3>1, <4>2, <5>1
        <5>3. Copies(k) + 1 <= 1 + (late[k] + 1)
          BY <1>7
        <5> QED
          BY <1>6, <1>7, <2>1, <4>1, <5>2, <5>3
      <4>3. CASE polled /\ rpPc # "handle" /\ late' = late
        <5>1. Copies(k) <= late[k]
          BY <2>1, <3>1, <4>3 DEF CopiesInv, Accounted
        <5>2. Copies(k) + 1 <= 1 + late[k]
          BY <1>7, <5>1
        <5> QED
          BY <1>6, <1>7, <2>1, <4>1, <4>3, <5>2
      <4> QED
        BY <2>1, <4>2, <4>3 DEF TimesOut
    <3>2. CASE typed # k
      <4>1. Copies(k)' = Copies(k) /\ times'[k] = times[k]
        BY <1>6, <2>1, <3>2
      <4>2. late'[k] = late[k]
        <5>1. k \in Sent /\ late \in [Sent -> Nat]
          BY LinkAssumption DEF Sent, Key, WireInv, WireType
        <5> QED
          BY <2>1, <3>2, <5>1 DEF TimesOut
      <4> QED
        BY <1>7, <2>1, <4>1, <4>2
    <3> QED
      BY <3>1, <3>2
  <2> QED
    BY <1>4, <2>2 DEF CopiesInv
<1> QED
  BY <1>8, <1>9, <1>10

LEMMA CopiesStep == TypeOK /\ WireInv /\ CopiesInv /\ [Next]_vars => CopiesInv'
<1> SUFFICES ASSUME TypeOK, WireInv, CopiesInv, [Next]_vars PROVE CopiesInv'
  OBVIOUS
<1>1. CASE ~(\/ Poll \/ Handle \/ TermLoop \/ SendSome \/ SendRest \/ SendRez \/ SendKey
             \/ TimeoutRetry)
  <2>1. /\ \A k \in Key : InRing(k)' = InRing(k) /\ (Taken(k)' <=> Taken(k))
        /\ times' = times
    BY <1>1, Elsewhere
  <2>2. /\ typed' = typed /\ (stPc' = "send" <=> stPc = "send")
        /\ late' = late \/ TimesOut
    BY <1>1 DEF Next, Rp, St, vars, historyVars, NothingToRender, Refresh,
       SyncOverlay, PublishFrame, NoKey, AckSeen, TimesOut, TimeoutGiveUp,
       SameFrame, NoteFrame, CopyText, CopyPicture
  <2>3. ASSUME NEW k \in Key PROVE late'[k] \in Nat /\ late[k] <= late'[k]
    <3>1. late[k] \in Nat
      BY CopiesSum
    <3>2. late'[k] = late[k] \/ late'[k] = late[k] + 1
      <4>1. k \in Sent /\ late \in [Sent -> Nat]
        BY LinkAssumption DEF Sent, Key, WireInv, WireType
      <4> QED
        BY <2>2, <4>1 DEF TimesOut
    <3> QED
      BY <3>1, <3>2
  <2>4. /\ \A k \in Key : Copies(k)' = Copies(k)
        /\ \A k \in Key : Copies(k)' <= 1 + late'[k] /\ (k > typed' => times'[k] = 0)
    BY <2>1, <2>2, <2>3, SameCopies
  <2>5. Accounted'
    <3> SUFFICES ASSUME stPc' = "wait" PROVE Accounted'
      BY DEF Accounted
    <3>1. /\ stPc = "wait" /\ polled' = polled /\ late' = late /\ token' = token
          /\ seed' = seed /\ request' = request /\ pending' = pending
          /\ (rpPc' = "handle" <=> rpPc = "handle")
      BY <1>1 DEF Next, Rp, St, vars, loopVars, sendVars, tokenVars, historyVars, tryVars,
         NothingToRender, Refresh, SyncOverlay, PublishFrame, NoKey, AckSeen, TimesOut,
         TimeoutGiveUp, SameFrame, NoteFrame, CopyText, CopyPicture
    <3> QED
      BY <2>2, <2>4, <3>1 DEF CopiesInv, Accounted, Acked
  <2> QED
    BY <2>4, <2>5 DEF CopiesInv
<1> QED
  BY <1>1, PollCopies, HandleCopies, TermCopies, SendCopies, AttemptCopies

-----------------------------------------------------------------------------
(* The resolution.                                                         *)
LEMMA LateGrows ==
  ASSUME TypeOK, WireInv, [Next]_vars
  PROVE  late'[0] = late[0] \/ late'[0] = late[0] + 1
<1>1. late' = late \/ late' = [late EXCEPT ![typed] = @ + 1]
  BY DEF Next, Rp, St, vars, historyVars, Poll, Handle, TermLoop, NothingToRender,
     Refresh, SyncOverlay, PublishFrame, SendRez, SendKey, NoKey, SendSome,
     SendRest, AckSeen, TimesOut, TimeoutRetry, TimeoutGiveUp, SameFrame, NoteFrame,
     CopyText, CopyPicture
<1>2. late \in [Sent -> Nat] /\ 0 \in Sent
  BY LinkAssumption DEF WireInv, WireType, Sent
<1> QED
  BY <1>1, <1>2

LEMMA WholeStays ==
  ASSUME WireInv, Whole, Now' = Now, NEW more \in Seq(Words(Now)), ring' = ring \o more
  PROVE  Whole'
<1>1. PICK q \in Commands(Now) : /\ Len(Encode(q)) <= Len(ring)
                                 /\ SubSeq(ring, 1, Len(Encode(q))) = Encode(q)
  BY DEF Whole
<1>2. PICK m \in Nat : m = Len(Encode(q))
  BY EncodeShape
<1>3. ring \in Seq(Words(Now)) /\ m <= Len(ring)
  BY <1>1, <1>2 DEF WireInv, WireType
<1>4. m <= Len(ring') /\ SubSeq(ring', 1, m) = SubSeq(ring, 1, m)
  BY <1>2, <1>3
<1> QED
  BY <1>1, <1>2, <1>4 DEF Whole

LEMMA RezKept ==
  ASSUME TypeOK, WireInv, [Next]_vars
  PROVE  /\ screenRez' = screenRez
         /\ rezVar = screenRez => rezVar' = screenRez
         /\ Handle /\ typed = 0 => rezVar' = screenRez
<1>1. screenRez' = screenRez
  BY DEF Next, Rp, St, vars, Poll, Handle, TermLoop, NothingToRender, Refresh,
     SyncOverlay, PublishFrame, SendRez, SendKey, NoKey, SendSome, SendRest,
     AckSeen, TimeoutRetry, TimeoutGiveUp, SameFrame, NoteFrame, CopyText,
     CopyPicture
<1>2. CASE Handle
  <2>1. pending \in Commands(Now)
    BY <1>2 DEF Handle, WireInv, HoldInv
  <2>2. \/ Len(pending) = 2 /\ pending[2] \in 1 .. typed
        \/ Len(pending) = 3 /\ pending[2] = MenuRez /\ pending[3] = screenRez
    BY <2>1, CommandShape DEF Now
  <2>3. rezVar' = rezVar \/ rezVar' = screenRez
    BY <1>2, <2>2 DEF Handle, IsSharedVar
  <2>4. typed = 0 => Len(pending) = 3 /\ pending[2] = MenuRez /\ pending[3] = screenRez
    BY <2>2
  <2>5. typed = 0 => rezVar' = screenRez
    BY <1>2, <2>4 DEF Handle, IsSharedVar
  <2> QED
    BY <1>1, <2>3, <2>5
<1>3. CASE ~Handle
  <2>1. rezVar' = rezVar
    BY <1>3 DEF Next, Rp, St, vars, loopVars, Poll, TermLoop, NothingToRender, Refresh,
       SyncOverlay, PublishFrame, SendRez, SendKey, NoKey, SendSome, SendRest,
       AckSeen, TimeoutRetry, TimeoutGiveUp, SameFrame, NoteFrame, CopyText,
       CopyPicture
  <2> QED
    BY <1>1, <1>3, <2>1
<1> QED
  BY <1>2, <1>3

(* Whatever touches none of it.                                            *)
LEMMA RezSame ==
  ASSUME RezInv, rpPc' = "handle" <=> rpPc = "handle", ring' = ring, out' = out,
         stPc' = stPc, rezVar' = rezVar, screenRez' = screenRez, typed' = typed,
         token' = token, seed' = seed, request' = request, attempts' = attempts,
         late' = late, splits' = splits
  PROVE  RezInv'
<1>1. Now' = Now
  BY DEF Now
<1>2. Whole' <=> Whole
  BY <1>1 DEF Whole
<1>3. Untouched' <=> Untouched
  BY DEF Untouched
<1>4. Current' = Current /\ (Paid(0)' <=> Paid(0)) /\ (Paid(1)' <=> Paid(1))
  BY DEF Current, Paid
<1>5. GetsThrough' <=> GetsThrough
  BY <1>2, <1>4 DEF GetsThrough
<1> QED
  BY <1>3, <1>4, <1>5 DEF RezInv, Sending

LEMMA RezPoll == TypeOK /\ WireInv /\ RezInv /\ Poll => RezInv'
<1> SUFFICES ASSUME TypeOK, WireInv, RezInv, Poll PROVE RezInv'
  OBVIOUS
<1>1. /\ rpPc = "poll" /\ ring' = << >> /\ out' = out /\ stPc' = stPc
      /\ rezVar' = rezVar /\ screenRez' = screenRez /\ typed' = typed
      /\ token' = token /\ seed' = seed /\ request' = request /\ attempts' = attempts
      /\ late' = late /\ splits' = splits
      /\ pending' = ParseAll(ring).kept
      /\ rpPc' = IF pending' = None THEN "term" ELSE "handle"
  BY DEF Poll, tokenVars, sendVars, historyVars
<1>2. ring = << >> => rpPc' = "term"
  BY <1>1, NothingKept
<1>3. Whole => rpPc' = "handle"
  BY <1>1, WholeRing DEF WireInv
<1>4. Untouched => Untouched'
  BY <1>1, <1>2 DEF Untouched
<1>5. Current' = Current /\ (Paid(0)' <=> Paid(0)) /\ (Paid(1)' <=> Paid(1))
  BY <1>1 DEF Current, Paid
<1>6. GetsThrough => GetsThrough'
  BY <1>1, <1>3, <1>5 DEF GetsThrough
<1> QED
  BY <1>1, <1>4, <1>5, <1>6 DEF RezInv, Sending

(* What is sent pays for itself, or adds up to a whole command.            *)
LEMMA RezSend == TypeOK /\ WireInv /\ RezInv /\ (SendSome \/ SendRest) => RezInv'
<1> SUFFICES ASSUME TypeOK, WireInv, RezInv, SendSome \/ SendRest PROVE RezInv'
  OBVIOUS
<1>1. /\ rpPc' = rpPc /\ stPc = "send" /\ stPc' \in {"send", "wait"}
      /\ rezVar' = rezVar /\ screenRez' = screenRez /\ typed' = typed
      /\ token' = token /\ seed' = seed /\ request' = request /\ attempts' = attempts
      /\ late' = late
  BY DEF SendSome, SendRest, loopVars, tokenVars, sendVars, historyVars, tryVars
<1> SUFFICES ASSUME rezVar # screenRez PROVE /\ Sending' /\ typed' = 0 /\ token' = -1
                                             /\ Paid(0)' /\ GetsThrough'
  BY <1>1 DEF RezInv
<1>2. typed = 0 /\ token = -1 /\ Paid(0) /\ GetsThrough
  BY <1>1 DEF RezInv
<1>3. /\ Attempts \in Int /\ attempts \in Int /\ late[0] \in Int
      /\ splits \in Int
  BY LinkAssumption DEF TypeOK, WireInv, WireType, Sent
<1>4. CASE SendSome
  <2>1. splits' = splits + 1
    BY <1>4 DEF SendSome
  <2>2. Paid(0)' /\ Paid(1)'
    BY <1>1, <1>2, <1>3, <2>1 DEF Paid
  <2> QED
    BY <1>1, <1>2, <2>2 DEF Sending, GetsThrough
<1>5. CASE SendRest
  <2>1. splits' = splits /\ ring' = ring \o out
    BY <1>5 DEF SendRest, tryVars
  <2>2. Paid(0)' /\ (Paid(1) => Paid(1)')
    BY <1>1, <1>2, <2>1 DEF Paid
  <2>3. Now' = Now /\ out \in Seq(Words(Now))
    BY <1>1 DEF Now, WireInv, WireType
  <2>4. Whole => Whole'
    BY <2>1, <2>3, WholeStays
  <2>5. ring = << >> /\ out = Encode(Current) => Whole'
    <3> SUFFICES ASSUME ring = << >>, out = Encode(Current) PROVE Whole'
      OBVIOUS
    <3>1. ring' = Encode(Current)
      BY <2>1, <2>3
    <3>2. Current \in Commands(Now')
      BY <1>1, <2>3, CurrentCommand DEF Sending
    <3>3. Encode(Current) \in Seq(Words(Now))
      BY <2>3
    <3>4. /\ Len(Encode(Current)) <= Len(Encode(Current))
          /\ SubSeq(Encode(Current), 1, Len(Encode(Current))) = Encode(Current)
      BY <3>3
    <3> QED
      BY <3>1, <3>2, <3>4 DEF Whole
  <2> QED
    BY <1>1, <1>2, <2>2, <2>4, <2>5 DEF Sending, GetsThrough
<1> QED
  BY <1>4, <1>5

LEMMA RezBoot == TypeOK /\ WireInv /\ RezInv /\ SendRez => RezInv'
<1> SUFFICES ASSUME TypeOK, WireInv, RezInv, SendRez PROVE RezInv'
  OBVIOUS
<1>1. /\ stPc = "boot" /\ typed' = typed /\ token' = token
      /\ attempts' = Attempts /\ splits' = 0
      /\ late' = late
  BY DEF SendRez, First, Tries, tokenVars, historyVars
<1>2. ring = << >> /\ token = -1 /\ typed = 0
  BY <1>1 DEF RezInv, Untouched, WireInv, SendInv
<1>3. stPc' = "send" /\ ring' = ring /\ out' = Encode(Current')
  BY NewAttempt
<1>4. Attempts \in Nat /\ late[0] \in Nat
  BY LinkAssumption DEF WireInv, WireType, Sent
<1>5. Attempts - Attempts + 0 <= late[0] + 0
  BY <1>4
<1>6. Paid(0)'
  BY <1>1, <1>5 DEF Paid
<1> QED
  BY <1>1, <1>2, <1>3, <1>6 DEF RezInv, Sending, GetsThrough

(* An attempt in vain is paid for, and the last is not in vain.            *)
LEMMA RezTimeout ==
  TypeOK /\ WireInv /\ RezInv /\ Spare' /\ (TimeoutRetry \/ TimeoutGiveUp) => RezInv'
<1> SUFFICES ASSUME TypeOK, WireInv, RezInv, Spare', TimeoutRetry \/ TimeoutGiveUp
             PROVE  RezInv'
  OBVIOUS
<1>1. /\ rpPc' = rpPc /\ stPc = "wait" /\ stPc' # "boot" /\ TimesOut
      /\ rezVar' = rezVar /\ screenRez' = screenRez /\ typed' = typed
      /\ token' = token /\ seed' = seed /\ ring' = ring /\ splits' = splits
  BY DEF TimeoutRetry, TimeoutGiveUp, TimesOut, Attempt, loopVars, tokenVars, historyVars,
         tryVars
<1> SUFFICES ASSUME rezVar # screenRez PROVE /\ Sending' /\ typed' = 0 /\ token' = -1
                                             /\ Paid(0)' /\ GetsThrough'
  BY <1>1 DEF RezInv
<1>2. typed = 0 /\ token = -1 /\ Paid(0) /\ GetsThrough
  BY <1>1 DEF RezInv
<1>3. /\ Attempts \in Int /\ attempts \in Int /\ late[0] \in Nat
      /\ splits \in 0 .. MaxSplits /\ MaxSplits \in Nat
  BY LinkAssumption DEF TypeOK, WireInv, WireType, Sent
<1>4. \/ late'[0] = late[0] + 1
      \/ /\ late' = late /\ rpPc # "handle" /\ ring = << >> /\ Paid(1)
  <2>1. CASE late'[0] = late[0] + 1
    BY <2>1
  <2>2. CASE polled /\ rpPc # "handle" /\ late' = late
    <3>1. ring = << >>
      BY <1>1, <2>2 DEF WireInv, SendInv
    <3>2. ~Whole
      <4> SUFFICES ASSUME NEW q \in Commands(Now), Len(Encode(q)) <= 0 PROVE FALSE
        BY <3>1 DEF Whole
      <4>1. Len(q) \in Nat /\ Len(Encode(q)) = Len(q) + 4
        BY EncodeShape, CommandShape
      <4> QED
        BY <4>1
    <3> QED
      BY <1>1, <1>2, <2>2, <3>1, <3>2 DEF GetsThrough
  <2>3. late' = [late EXCEPT ![0] = @ + 1] => late'[0] = late[0] + 1
    BY LinkAssumption DEF WireInv, WireType, Sent
  <2> QED
    BY <1>1, <1>2, <2>1, <2>2, <2>3 DEF TimesOut
<1>5. CASE TimeoutGiveUp
  <2>1. attempts = 1
    BY <1>5 DEF TimeoutGiveUp
  <2>2. late'[0] + MaxSplits < Attempts
    BY DEF Spare
  <2>3. CASE late'[0] = late[0] + 1
    BY <1>2, <1>3, <2>1, <2>2, <2>3 DEF Paid
  <2>4. CASE late' = late /\ Paid(1)
    BY <1>3, <2>1, <2>2, <2>4 DEF Paid
  <2> QED
    BY <1>4, <2>3, <2>4
<1>6. CASE TimeoutRetry
  <2>1. attempts' = attempts - 1
    BY <1>6 DEF TimeoutRetry
  <2>2. stPc' = "send" /\ out' = Encode(Current')
    BY <1>6, NewAttempt
  <2>3. Now' = Now /\ (Whole' <=> Whole)
    BY <1>1 DEF Now, Whole
  <2>4. CASE late'[0] = late[0] + 1
    <3>1. Paid(0)' /\ (Paid(1) => Paid(1)')
      BY <1>1, <1>2, <1>3, <2>1, <2>4 DEF Paid
    <3> QED
      BY <1>1, <1>2, <2>2, <2>3, <3>1 DEF Sending, GetsThrough
  <2>5. CASE late' = late /\ rpPc # "handle" /\ ring = << >> /\ Paid(1)
    <3>1. Paid(0)'
      BY <1>1, <1>3, <2>1, <2>5 DEF Paid
    <3> QED
      BY <1>1, <1>2, <2>2, <2>5, <3>1 DEF Sending, GetsThrough
  <2> QED
    BY <1>4, <2>4, <2>5
<1> QED
  BY <1>5, <1>6

LEMMA RezStep == TypeOK /\ WireInv /\ RezInv /\ Spare' /\ [Next]_vars => RezInv'
<1> SUFFICES ASSUME TypeOK, WireInv, RezInv, Spare', [Next]_vars PROVE RezInv'
  OBVIOUS
<1>1. CASE Poll \/ SendSome \/ SendRest \/ SendRez \/ TimeoutRetry \/ TimeoutGiveUp
  BY <1>1, RezPoll, RezSend, RezBoot, RezTimeout
<1>2. CASE Handle
  <2>1. stPc' = stPc /\ typed' = typed /\ rpPc = "handle"
    BY <1>2 DEF Handle, historyVars
  <2>2. CASE stPc = "boot"
    BY <2>1, <2>2 DEF RezInv, Untouched
  <2>3. CASE stPc # "boot"
    <3>1. rezVar' = screenRez'
      BY <1>2, <2>3, RezKept DEF RezInv
    <3> QED
      BY <2>1, <2>3, <3>1 DEF RezInv
  <2> QED
    BY <2>2, <2>3
<1>3. CASE \/ TermLoop \/ NothingToRender \/ Refresh \/ SyncOverlay \/ PublishFrame
           \/ UNCHANGED vars
  BY <1>3, RezSame DEF vars, loopVars, tokenVars, sendVars, historyVars, tryVars, TermLoop,
     NothingToRender, Refresh, SyncOverlay, PublishFrame
<1>4. CASE \/ SendKey \/ NoKey \/ AckSeen \/ SameFrame \/ NoteFrame \/ CopyText
           \/ CopyPicture
  <2>1. stPc # "boot" /\ stPc' # "boot"
    BY <1>4 DEF SendKey, First, Attempt, NoKey, AckSeen, SameFrame, NoteFrame, CopyText,
       CopyPicture
  <2>2. ~(Sending /\ token = -1)
    BY <1>4 DEF WireInv, SendInv, Sending, Acked, SendKey, NoKey, AckSeen, SameFrame,
       NoteFrame, CopyText, CopyPicture
  <2>3. rezVar' = screenRez'
    BY <2>1, <2>2, RezKept DEF RezInv
  <2> QED
    BY <2>1, <2>3 DEF RezInv
<1> QED
  BY <1>1, <1>2, <1>3, <1>4 DEF Next, Rp, St

-----------------------------------------------------------------------------
LEMMA InitWire == Init => TypeOK /\ WireInv
<1> SUFFICES ASSUME Init PROVE TypeOK /\ WireInv
  OBVIOUS
<1>1. MaxKeys \in Nat /\ Attempts \in Nat /\ MaxSplits \in Nat
  BY LinkAssumption
<1>2. seed \in Nat /\ frame \in 0 .. 255
  BY LinkAssumption DEF Init
<1>3. TypeOK
  <2>1. pending = None /\ slot = None /\ rezVar \in Rez
    BY DEF Init
  <2>2. menuDrawSeq \in 0 .. 255 /\ attempts \in 0 .. Attempts
    BY <1>1 DEF Init
  <2>4. acted \in 0 .. typed /\ typed \in 0 .. MaxKeys
    BY <1>1 DEF Init
  <2>5. (stPc = "send") = (out # << >>)
    BY DEF Init
  <2> QED
    BY <1>2, <2>1, <2>2, <2>4, <2>5 DEF TypeOK
<1>4. WireType
  <2>1. request \in -1 .. seed /\ token \in -1 .. seed
    BY <1>2 DEF Init
  <2>2. splits \in 0 .. MaxSplits
    BY <1>1 DEF Init
  <2>3. times \in [Key -> Nat] /\ late \in [Sent -> Nat]
    BY DEF Init
  <2>4. ring \in Seq(Words(Now)) /\ out \in Seq(Words(Now))
    BY DEF Init
  <2>5. /\ screenRez \in Rez /\ polled \in BOOLEAN
        /\ rpPc = "poll" /\ stPc = "boot"
    BY DEF Init
  <2> QED
    BY <1>2, <2>1, <2>2, <2>3, <2>4, <2>5 DEF WireType
<1>5. HoldInv /\ SendInv
  BY DEF Init, HoldInv, SendInv, Sending
<1> QED
  BY <1>3, <1>4, <1>5 DEF WireInv

LEMMA InitKeys == Init => OrderInv /\ CopiesInv /\ RezInv
<1> SUFFICES ASSUME Init PROVE OrderInv /\ CopiesInv /\ RezInv
  OBVIOUS
<1>1. \A k \in Key : InRing(k) = {} /\ ~Taken(k)
  BY DEF Init, InRing, Taken, None
<1>2. OrderInv
  BY <1>1 DEF OrderInv
<1>3. CopiesInv
  <2>1. ASSUME NEW k \in Key PROVE Copies(k) <= 1 + late[k] /\ times[k] = 0
    <3>1. times[k] = 0 /\ late[k] = 0 /\ Kept(k) = 0 /\ InSend(k) = 0
      BY <1>1, LinkAssumption DEF Init, Kept, InSend, Sent, Key
    <3>2. Copies(k) = 0 + 0 + 0 + 0
      BY <1>1, <3>1, FS_EmptySet DEF Copies
    <3> QED
      BY <3>1, <3>2
  <2>2. Accounted
    BY DEF Init, Accounted
  <2> QED
    BY <2>1, <2>2 DEF CopiesInv
<1>4. RezInv
  BY DEF Init, RezInv, Untouched
<1> QED
  BY <1>2, <1>3, <1>4

THEOREM LinkInvariance == Spec => []IInv
<1>1. Init => IInv
  BY InitWire, InitKeys DEF IInv
<1>2. IInv /\ [Next]_vars => IInv'
  <2> SUFFICES ASSUME IInv, [Next]_vars PROVE IInv'
    OBVIOUS
  <2>1. TypeOK' /\ WireInv'
    BY WireStep DEF IInv
  <2>2. OrderInv' /\ CopiesInv'
    BY OrderStep, CopiesStep DEF IInv
  <2>3. late'[0] = late[0] \/ late'[0] = late[0] + 1
    BY LateGrows DEF IInv
  <2>4. Spare' => Spare
    BY <2>3, LinkAssumption DEF Spare, IInv, WireInv, WireType, Sent
  <2>5. Spare' => RezInv'
    BY <2>4, RezStep DEF IInv
  <2> QED
    BY <2>1, <2>2, <2>5 DEF IInv
<1> QED
  BY <1>1, <1>2, PTL DEF Spec

(* Every variable keeps its type; in particular the terminal's one slot    *)
(* (term.c:154) is empty whenever a key reaches it.                        *)
THEOREM LinkTypeCorrect == Spec => []TypeOK
<1>1. IInv => TypeOK
  BY DEF IInv
<1> QED
  BY <1>1, LinkInvariance, PTL

(* However commands are split and repeated, a key acts more than once only *)
(* as often as the loop was away for a timeout of the Atari.               *)
THEOREM ActsOnceCorrect == Spec => []ActsOnce
<1>1. IInv => ActsOnce
  <2> SUFFICES ASSUME IInv, NEW k \in Key PROVE times[k] <= 1 + late[k]
    BY DEF ActsOnce
  <2>1. /\ times[k] \in Nat /\ late[k] \in Nat /\ Cardinality(InRing(k)) \in Nat
        /\ Kept(k) \in {0, 1} /\ InSend(k) \in {0, 1}
    BY CopiesSum DEF IInv
  <2>2. times[k] + Cardinality(InRing(k)) + Kept(k) + InSend(k) <= 1 + late[k]
    BY DEF IInv, CopiesInv, Copies
  <2> QED
    BY <2>1, <2>2
<1> QED
  BY <1>1, LinkInvariance, PTL

(* An Atari whose print loop runs has told the menu its resolution (main.s *)
(* before print_loop_low), for any number of attempts and turns of any     *)
(* length, unless all attempts but those that splits can cost timed out    *)
(* while the menu loop was away.                                           *)
THEOREM RezCorrect == Spec => []RezKnown
<1>1. IInv => RezKnown
  BY DEF IInv, RezKnown, RezInv, Sending, Spare
<1> QED
  BY <1>1, LinkInvariance, PTL

(* The menu acts on keys that were typed and in their order: the wire, its *)
(* splits, its retries and the parser implement the log of the keys.       *)
THEOREM KeyLogCorrect == Spec => ImplementsKeyLog
<1>1. Init => Keys!Init
  BY DEF Init, Keys!Init
<1>2. IInv /\ [Next]_vars => [Keys!Next]_<<typed, acted>>
  <2> SUFFICES ASSUME IInv, [Next]_vars
               PROVE  [Keys!Next]_<<typed, acted>>
    OBVIOUS
  <2>1. CASE SendKey
    <3>1. Keys!Type
      BY <2>1 DEF SendKey, Keys!Type
    <3> QED
      BY <3>1 DEF Keys!Next
  <2>2. CASE TermLoop /\ slot # None
    <3>1. acted' = slot[2] /\ typed' = typed
      BY <2>2 DEF TermLoop
    <3>2. slot[2] \in Key /\ Taken(slot[2])
      BY <2>2, TermTakes DEF IInv
    <3>3. acted <= slot[2]
      BY <3>2 DEF IInv, OrderInv
    <3>4. slot[2] <= typed
      BY <3>2, KnownKeys DEF IInv
    <3>5. slot[2] \in 1 .. typed
      BY <3>2, <3>4, LinkAssumption DEF Key, IInv, TypeOK
    <3>6. slot[2] >= acted
      BY <3>3, <3>5 DEF IInv, TypeOK
    <3> QED
      BY <3>1, <3>5, <3>6 DEF Keys!Next, Keys!Act
  <2>3. CASE ~SendKey /\ ~(TermLoop /\ slot # None)
    <3>1. typed' = typed /\ acted' = acted
      BY <2>3 DEF Next, Rp, St, vars, historyVars, Poll, Handle, TermLoop,
         NothingToRender, Refresh, SyncOverlay, PublishFrame, SendRez, NoKey, SendSome,
         SendRest, AckSeen, TimeoutRetry, TimeoutGiveUp, SameFrame, NoteFrame,
         CopyText, CopyPicture
    <3> QED
      BY <3>1
  <2> QED
    BY <2>1, <2>2, <2>3
<1> QED
  BY <1>1, <1>2, LinkInvariance, PTL DEF Spec, ImplementsKeyLog, Keys!Spec
=============================================================================
