--------------------------- MODULE DenyManyProofs ---------------------------
(***************************************************************************)
(* Theorems about DenyManyCalls: what deny_many sends and what the         *)
(* denylist then says, for chunks of any size, vectors of any length with  *)
(* any duplicates, any number of calls and any number of faults.           *)
(***************************************************************************)
EXTENDS DenyManyCalls, SequenceTheorems, TLAPS

-----------------------------------------------------------------------------
(* Sequences *)

\* A sequence that is not empty has a first element, and a rest with one less.
LEMMA HeadTailOf ==
  ASSUME NEW S, NEW s \in Seq(S), s # <<>>
  PROVE  /\ Head(s) \in S /\ Head(s) = s[1]
         /\ Tail(s) \in Seq(S) /\ Len(Tail(s)) = Len(s) - 1 /\ Len(s) \in Nat \ {0}
         /\ \A i \in 1..Len(Tail(s)) : Tail(s)[i] = s[i + 1]
OBVIOUS

\* Append adds one element at the end.
LEMMA AppendOf ==
  ASSUME NEW S, NEW s \in Seq(S), NEW e \in S
  PROVE  /\ Append(s, e) \in Seq(S) /\ Len(Append(s, e)) = Len(s) + 1
         /\ Append(s, e)[Len(s) + 1] = e
OBVIOUS

\* One element alone.
LEMMA OneOf ==
  ASSUME NEW S, NEW e \in S
  PROVE  <<e>> \in Seq(S) /\ Len(<<e>>) = 1 /\ <<e>>[1] = e
OBVIOUS

\* Two sequences one after the other.
LEMMA ConcatOf ==
  ASSUME NEW S, NEW s \in Seq(S), NEW t \in Seq(S)
  PROVE  /\ s \o t \in Seq(S) /\ Len(s \o t) = Len(s) + Len(t)
         /\ Len(s) \in Nat /\ Len(t) \in Nat
         /\ \A i \in 1..Len(s) : (s \o t)[i] = s[i]
         /\ \A i \in 1..Len(t) : (s \o t)[Len(s) + i] = t[i]
         /\ \A i \in 1..Len(s \o t) : i > Len(s) => (s \o t)[i] = t[i - Len(s)]
OBVIOUS

\* A part of a sequence that is within it.
LEMMA PartOf ==
  ASSUME NEW S, NEW s \in Seq(S), NEW a \in Nat, NEW b \in Nat, a <= b, b <= Len(s)
  PROVE  /\ SubSeq(s, a + 1, b) \in Seq(S) /\ Len(SubSeq(s, a + 1, b)) = b - a
         /\ \A i \in 1..(b - a) : SubSeq(s, a + 1, b)[i] = s[a + i]
<1>1. a + 1 \in 1..(Len(s) + 1) /\ b \in a..Len(s)
  OBVIOUS
<1> QED
  BY <1>1, SubSeqProperties

\* Sequences of the same length with the same elements are the same.
LEMMA SameSeq ==
  ASSUME NEW S, NEW s \in Seq(S), NEW t \in Seq(S), Len(s) = Len(t),
         \A i \in 1..Len(s) : s[i] = t[i]
  PROVE  s = t
BY SeqEqual, LenProperties

\* Only the empty sequence has no elements.
LEMMA EmptyOf ==
  ASSUME NEW S, NEW s \in Seq(S)
  PROVE  Len(s) = 0 <=> s = <<>>
BY EmptySeq

-----------------------------------------------------------------------------
(* Chunks *)

\* The chunk is the front of what is left, whole or all of it, and Rest is what
\* comes after it.
LEMMA ChunkOf ==
  ASSUME todo \in Seq(Status), todo # <<>>
  PROVE  /\ Chunk \in Seq(Status) /\ Len(Chunk) \in 1..Len(todo)
         /\ \A i \in 1..Len(Chunk) : Chunk[i] = todo[i]
         /\ Len(Chunk) = ChunkSize \/ Len(Chunk) = Len(todo)
         /\ Rest \in Seq(Status) /\ Len(Rest) = Len(todo) - Len(Chunk)
         /\ \A i \in 1..Len(Rest) : Rest[i] = todo[Len(Chunk) + i]
<1> DEFINE n == IF Len(todo) < ChunkSize THEN Len(todo) ELSE ChunkSize
<1>1. Len(todo) \in Nat \ {0}
  BY EmptyOf, LenProperties
<1>2. n \in 1..Len(todo) /\ (n = ChunkSize \/ n = Len(todo))
  BY <1>1, ChunkAssumption
<1>3. Chunk = SubSeq(todo, 0 + 1, n)
  BY DEF Chunk
<1> HIDE DEF n
<1>4. Chunk \in Seq(Status) /\ Len(Chunk) = n /\ \A i \in 1..n : Chunk[i] = todo[i]
  BY <1>1, <1>2, <1>3, PartOf
<1>5. /\ Rest \in Seq(Status) /\ Len(Rest) = Len(todo) - n
      /\ \A i \in 1..(Len(todo) - n) : Rest[i] = todo[n + i]
  BY <1>1, <1>2, <1>4, PartOf DEF Rest
<1> QED
  BY <1>2, <1>4, <1>5

\* A whole chunk after whole chunks makes whole chunks.
LEMMA NextWhole ==
  ASSUME NEW a \in Nat, a % ChunkSize = 0
  PROVE  (a + ChunkSize) % ChunkSize = 0
<1> DEFINE c == ChunkSize
           q == a \div c
<1>1. c \in Nat \ {0}
  BY ChunkAssumption
<1> HIDE DEF c
<1>2. q \in Int /\ a = c * q + (a % c)
  BY <1>1
<1>3. a + c = c * (q + 1) + 0
  BY <1>1, <1>2 DEF c
<1> HIDE DEF q
<1>4. ASSUME NEW r \in Int PROVE (c * r + 0) % c = 0
  BY <1>1
<1> QED
  BY <1>2, <1>3, <1>4 DEF c

-----------------------------------------------------------------------------
(* Types *)

\* A vector is a sequence.
LEMMA ListsAreSequences ==
  ASSUME NEW new \in Lists
  PROVE  new \in Seq(Status)
<1>1. PICK n \in 0..MaxEntries : new \in [1..n -> Status]
  BY DEF Lists
<1>2. n \in Nat
  BY <1>1, DenyManyAssumption
<1> QED
  BY <1>1, <1>2, SeqDef

\* The entry that decides a flag says whether it is set.
LEMMA AppliedTyped ==
  ASSUME NEW tx \in Seq(Status), flags \in [Deployments -> BOOLEAN]
  PROVE  Applied(tx) \in [Deployments -> BOOLEAN]
<1> SUFFICES ASSUME NEW d \in Deployments
             PROVE  Applied(tx)[d] \in BOOLEAN
  BY DEF Applied
<1> DEFINE j == CHOOSE k \in DOMAIN tx : Decides(tx, k, d)
<1>1. CASE \E k \in DOMAIN tx : Decides(tx, k, d)
  <2>1. j \in DOMAIN tx
    BY <1>1
  <2>2. tx[j] \in Status
    BY <2>1, ElementOfSeq, LenProperties
  <2> QED
    BY <1>1, <2>2 DEF Applied, Status
<1>2. CASE ~ \E k \in DOMAIN tx : Decides(tx, k, d)
  BY <1>2 DEF Applied
<1> QED
  BY <1>1, <1>2

\* What a transaction leaves of a flag: what its last entry about it says, or what
\* was there.
LEMMA AppliedSays ==
  ASSUME NEW tx \in Seq(Status), NEW d \in Deployments
  PROVE  /\ \A i \in 1..Len(tx) : Latest(tx, i, d) => Applied(tx)[d] = tx[i].deny
         /\ (\A i \in 1..Len(tx) : tx[i].id # d) => Applied(tx)[d] = flags[d]
<1>1. DOMAIN tx = 1..Len(tx) /\ Len(tx) \in Nat
  BY LenProperties
<1>2. ASSUME NEW i \in 1..Len(tx), Latest(tx, i, d)
      PROVE  Applied(tx)[d] = tx[i].deny
  <2> DEFINE j == CHOOSE k \in DOMAIN tx : Decides(tx, k, d)
  <2>1. Decides(tx, i, d)
    BY <1>2 DEF Latest, Decides
  <2>2. j \in DOMAIN tx /\ Decides(tx, j, d)
    BY <1>1, <2>1
  <2>3. j = i
    BY <1>1, <2>1, <2>2 DEF Decides
  <2> QED
    BY <1>1, <2>1, <2>3 DEF Applied
<1>3. ASSUME \A i \in 1..Len(tx) : tx[i].id # d
      PROVE  Applied(tx)[d] = flags[d]
  BY <1>1, <1>3 DEF Applied, Decides
<1> QED
  BY <1>2, <1>3

\* What is accepted is queued behind what is there, or takes its place.
LEMMA AcceptingTyped ==
  ASSUME mempool \in Seq(Seq(Status)), NEW tx \in Seq(Status), NEW m \in Accepting(tx)
  PROVE  /\ m \in Seq(Seq(Status)) /\ m # <<>> /\ m[Len(m)] = tx
         /\ mempool = <<>> => Len(m) = 1
<1>1. m = Append(mempool, tx) \/ m = <<tx>>
  BY DEF Accepting
<1>2. CASE m = Append(mempool, tx)
  <2>1. Len(m) = Len(mempool) + 1 /\ m[Len(m)] = tx /\ m \in Seq(Seq(Status))
    BY <1>2, AppendOf
  <2> QED
    BY <2>1, EmptyOf, LenProperties
<1>3. CASE m = <<tx>>
  BY <1>3, OneOf, EmptyOf
<1> QED
  BY <1>1, <1>2, <1>3

\* The types, and that deny_many waits for something only while it has a chunk to
\* deal with.
TypeInv ==
  /\ TypeOK
  /\ phase \in {"estimate", "send", "confirm"} => todo # <<>>

\* A step changes the variables of the call within their types.
LEMMA TypeStep ==
  ASSUME TypeInv, [Next]_vars
  PROVE  TypeInv'
<1> USE DEF TypeInv, TypeOK, SmTypeOK
<1>1. ASSUME NEW new \in Lists, Call(new)
      PROVE  TypeInv'
  <2>1. new \in Seq(Status) /\ <<>> \in Seq(Status)
    BY ListsAreSequences
  <2>2. calls' \in 0..MaxCalls
    BY <1>1, DenyManyAssumption DEF Call
  <2> QED
    BY <1>1, <2>1, <2>2 DEF Call, DenyMany, Phases
<1>2. CASE Proceed
  <2>1. CASE EstimateOk
    BY <1>2, <2>1 DEF Proceed, EstimateOk, SendOk, Confirmed, Phases
  <2>2. CASE SendOk
    <3>1. Chunk \in Seq(Status) /\ sent' = sent \o Chunk
      BY <1>2, <2>2, ChunkOf DEF Proceed, EstimateOk, SendOk, Confirmed
    <3>2. sent' \in Seq(Status) /\ mempool' \in Seq(Seq(Status))
      BY <2>2, <3>1, ConcatOf, AcceptingTyped DEF SendOk
    <3> QED
      BY <1>2, <2>2, <3>2 DEF Proceed, SendOk, Phases
  <2>3. CASE Confirmed
    BY <1>2, <2>3, ChunkOf DEF Proceed, EstimateOk, SendOk, Confirmed, Phases
  <2> QED
    BY <1>2, <2>1, <2>2, <2>3 DEF Proceed
<1>3. CASE Fail
  <2>1. faults' \in 0..MaxFaults /\ spoilt' \in BOOLEAN /\ UNCHANGED <<list, calls>>
    BY <1>3, DenyManyAssumption DEF Fail, Fault
  <2>2. <<>> \in Seq(Status)
    OBVIOUS
  <2>3. CASE UNCHANGED <<mempool, sent>>
    BY <1>3, <2>1, <2>2, <2>3
    DEF Fail, EstimateFails, ConfirmFails, SendFails, Phases
  <2>4. CASE SendFails(TRUE) /\ sent' = sent \o Chunk
    <3>1. Chunk \in Seq(Status)
      BY <2>4, ChunkOf DEF SendFails
    <3>2. sent' \in Seq(Status) /\ mempool' \in Seq(Seq(Status))
      BY <2>4, <3>1, ConcatOf, AcceptingTyped DEF SendFails
    <3> QED
      BY <2>1, <2>2, <2>4, <3>2 DEF SendFails, Phases
  <2> QED
    BY <1>3, <2>3, <2>4 DEF Fail, EstimateFails, ConfirmFails, SendFails
<1>4. CASE Done
  BY <1>4 DEF Done, Return, Phases
<1>5. CASE MineNext
  BY <1>5, HeadTailOf, AppliedTyped DEF MineNext, Mine
<1>6. CASE LoseNext
  <2>1. faults' \in 0..MaxFaults /\ spoilt' \in BOOLEAN
    BY <1>6, DenyManyAssumption DEF LoseNext, Fault
  <2> QED
    BY <1>6, <2>1, HeadTailOf DEF LoseNext, Lose
<1>7. CASE UNCHANGED vars
  BY <1>7 DEF vars, smVars
<1> QED
  BY <1>1, <1>2, <1>3, <1>4, <1>5, <1>6, <1>7 DEF Next

\* Nothing is called at first.
LEMMA TypeInit == Init => TypeInv
<1> SUFFICES ASSUME Init PROVE TypeInv
  OBVIOUS
<1>1. <<>> \in Seq(Status) /\ <<>> \in Seq(Seq(Status))
  OBVIOUS
<1>2. SmTypeOK /\ list \in Seq(Status) /\ sent \in Seq(Status)
  BY <1>1 DEF Init, SmTypeOK, Phases
<1>3. calls \in 0..MaxCalls /\ faults \in 0..MaxFaults /\ phase = "idle"
  BY DenyManyAssumption DEF Init
<1>4. spoilt \in BOOLEAN
  BY Zenon DEF Init
<1> QED
  BY <1>2, <1>3, <1>4 DEF TypeInv, TypeOK

\* So it holds throughout.
LEMMA TypeInvariance == Spec => []TypeInv
<1>1. TypeInv /\ [Next]_vars => TypeInv'
  BY TypeStep
<1> QED
  BY TypeInit, <1>1, PTL DEF Spec

\* deny_many keeps to vectors of entries, whatever its caller passes and whatever
\* goes wrong.
THEOREM DenyManyTypeCorrect == Spec => []TypeOK
<1>1. TypeInv => TypeOK
  BY DEF TypeInv
<1> QED
  BY TypeInvariance, <1>1, PTL

-----------------------------------------------------------------------------
(* What is sent *)

Running == phase \in {"estimate", "send", "confirm"}

\* The entries of the vector that the iterations so far dealt with.
Dealt == Len(list) - Len(todo)

\* s is the front of t.
Front(s, t) == Len(s) <= Len(t) /\ \A i \in 1..Len(s) : s[i] = t[i]

\* s is the end of t.
Back(s, t) == \A i \in 1..Len(s) : s[i] = t[Len(t) - Len(s) + i]

\* Where the loop stands in the vector.
LoopInv ==
  Running =>
    /\ Len(todo) <= Len(list) /\ Back(todo, list)
    /\ Dealt % ChunkSize = 0
    /\ Len(sent) = IF phase = "confirm" THEN Dealt + Len(Chunk) ELSE Dealt

\* What holds of the accepted entries whether the call goes on or not.
SentInv ==
  /\ Front(sent, list) /\ WholeChunks(Len(sent))
  /\ phase = "ok" /\ ~spoilt => Len(sent) = Len(list)

\* The lengths, as numbers, and Chunk as part of what is left.
LEMMA Lengths ==
  ASSUME TypeInv
  PROVE  /\ Len(todo) \in Nat /\ Len(list) \in Nat /\ Len(sent) \in Nat /\ ChunkSize \in Nat \ {0}
         /\ Running => Len(todo) >= 1
<1>1. Len(todo) \in Nat /\ Len(list) \in Nat /\ Len(sent) \in Nat
  BY LenProperties DEF TypeInv, TypeOK, SmTypeOK
<1>2. Running => Len(todo) # 0
  BY EmptyOf DEF TypeInv, TypeOK, SmTypeOK, Running
<1> QED
  BY <1>1, <1>2, ChunkAssumption

\* The node accepts the chunk: the accepted entries reach to the end of the chunk.
LEMMA ChunkSent ==
  ASSUME TypeInv, LoopInv, SentInv, phase = "send", sent' = sent \o Chunk, list' = list
  PROVE  /\ Len(sent') = Dealt + Len(Chunk)
         /\ Front(sent', list)
         /\ Len(sent') = Len(list) \/ Len(sent') % ChunkSize = 0
<1>1. todo \in Seq(Status) /\ list \in Seq(Status) /\ sent \in Seq(Status) /\ todo # <<>>
  BY DEF TypeInv, TypeOK, SmTypeOK
<1>2. /\ Len(todo) <= Len(list) /\ Back(todo, list) /\ Dealt % ChunkSize = 0
      /\ Len(sent) = Dealt /\ Running
  BY DEF LoopInv, Running
<1>3. /\ Chunk \in Seq(Status) /\ Len(Chunk) \in 1..Len(todo)
      /\ \A i \in 1..Len(Chunk) : Chunk[i] = todo[i]
      /\ Len(Chunk) = ChunkSize \/ Len(Chunk) = Len(todo)
  BY <1>1, ChunkOf
<1>4. /\ Len(sent') = Dealt + Len(Chunk)
      /\ \A i \in 1..Len(sent) : sent'[i] = sent[i]
      /\ \A i \in 1..Len(sent') : i > Len(sent) => sent'[i] = Chunk[i - Len(sent)]
  <2> DEFINE whole == sent \o Chunk
  <2>1. /\ Len(whole) = Len(sent) + Len(Chunk)
        /\ \A i \in 1..Len(sent) : whole[i] = sent[i]
        /\ \A i \in 1..Len(whole) : i > Len(sent) => whole[i] = Chunk[i - Len(sent)]
    BY <1>1, <1>3, ConcatOf
  <2>2. sent' = whole
    OBVIOUS
  <2> HIDE DEF whole
  <2> QED
    BY <1>2, <2>1, <2>2
<1>5. Front(sent', list)
  <2>1. Len(sent') <= Len(list)
    BY <1>2, <1>3, <1>4, Lengths DEF Dealt
  <2>2. ASSUME NEW i \in 1..Len(sent')
        PROVE  sent'[i] = list[i]
    <3>1. CASE i <= Len(sent)
      BY <1>4, <3>1, Lengths DEF SentInv, Front
    <3>2. CASE i > Len(sent)
      <4> DEFINE k == i - Len(sent)
      <4>1. k \in 1..Len(Chunk) /\ i = Dealt + k
        BY <1>2, <1>3, <1>4, <3>2, Lengths
      <4>2. sent'[i] = todo[k] /\ k \in 1..Len(todo)
        BY <1>3, <1>4, <3>2, <4>1
      <4>3. todo[k] = list[Dealt + k]
        BY <1>2, <4>2 DEF Back, Dealt
      <4> QED
        BY <4>1, <4>2, <4>3
    <3> QED
      BY <3>1, <3>2, <1>2, Lengths
  <2> QED
    BY <2>1, <2>2 DEF Front
<1>6. Len(sent') = Len(list) \/ Len(sent') % ChunkSize = 0
  <2>1. CASE Len(Chunk) = Len(todo)
    BY <1>2, <1>4, <2>1, Lengths DEF Dealt
  <2>2. CASE Len(Chunk) = ChunkSize
    <3>1. Dealt \in Nat
      BY <1>2, Lengths DEF Dealt
    <3> QED
      BY <1>2, <1>4, <2>2, <3>1, NextWhole
  <2> QED
    BY <1>3, <2>1, <2>2
<1> QED
  BY <1>4, <1>5, <1>6

\* A chunk is settled: the next one starts where it ends.
LEMMA ChunkDealtWith ==
  ASSUME TypeInv, LoopInv, phase = "confirm", todo' = Rest, list' = list, sent' = sent
  PROVE  /\ Len(todo') <= Len(list') /\ Back(todo', list')
         /\ Len(sent') = Dealt'
         /\ Rest # <<>> => Dealt' % ChunkSize = 0
         /\ Rest = <<>> => Len(sent') = Len(list')
<1>1. todo \in Seq(Status) /\ todo # <<>>
  BY DEF TypeInv, TypeOK, SmTypeOK
<1>2. /\ Len(todo) <= Len(list) /\ Back(todo, list) /\ Dealt % ChunkSize = 0
      /\ Len(sent) = Dealt + Len(Chunk)
  BY DEF LoopInv, Running
<1>3. /\ Len(Chunk) \in 1..Len(todo)
      /\ Len(Chunk) = ChunkSize \/ Len(Chunk) = Len(todo)
      /\ Rest \in Seq(Status) /\ Len(Rest) = Len(todo) - Len(Chunk)
      /\ \A i \in 1..Len(Rest) : Rest[i] = todo[Len(Chunk) + i]
  BY <1>1, ChunkOf
<1>4. Len(todo') <= Len(list) /\ Dealt' = Dealt + Len(Chunk) /\ Dealt \in Nat
  BY <1>2, <1>3, Lengths DEF Dealt
<1>5. Back(todo', list')
  <2>1. ASSUME NEW i \in 1..Len(Rest)
        PROVE  Rest[i] = list[Len(list) - Len(Rest) + i]
    <3>1. Len(Chunk) + i \in 1..Len(todo)
      BY <1>3, Lengths
    <3>2. todo[Len(Chunk) + i] = list[Len(list) - Len(todo) + (Len(Chunk) + i)]
      BY <1>2, <3>1 DEF Back
    <3>3. Len(list) - Len(todo) + (Len(Chunk) + i) = Len(list) - Len(Rest) + i
      BY <1>3, Lengths
    <3> QED
      BY <1>3, <3>2, <3>3
  <2> QED
    BY <2>1 DEF Back
<1>6. Rest # <<>> => Dealt' % ChunkSize = 0
  <2> SUFFICES ASSUME Rest # <<>> PROVE Dealt' % ChunkSize = 0
    OBVIOUS
  <2>1. Len(Rest) # 0
    BY <1>3, EmptyOf
  <2>2. Len(Chunk) = ChunkSize
    BY <1>3, <2>1, Lengths
  <2> QED
    BY <1>2, <1>4, <2>2, NextWhole
<1>7. Rest = <<>> => Len(sent) = Len(list)
  <2> SUFFICES ASSUME Rest = <<>> PROVE Len(sent) = Len(list)
    OBVIOUS
  <2>1. Len(Rest) = 0
    BY <1>3, EmptyOf
  <2> QED
    BY <1>2, <1>3, <2>1, Lengths DEF Dealt
<1> QED
  BY <1>2, <1>4, <1>5, <1>6, <1>7

\* Every step keeps to the vector.
LEMMA SplitStep ==
  ASSUME TypeInv, TypeInv', LoopInv, SentInv, [Next]_vars
  PROVE  LoopInv' /\ SentInv'
<1>1. ASSUME NEW new \in Lists, Call(new)
      PROVE  LoopInv' /\ SentInv'
  <2>1. /\ list' = new /\ sent' = <<>> /\ todo' = new /\ new \in Seq(Status)
        /\ phase' = IF new = <<>> THEN "ok" ELSE "estimate"
    BY <1>1, ListsAreSequences DEF Call, DenyMany
  <2>2. Len(sent') = 0 /\ Len(new) \in Nat /\ Dealt' = 0
    BY <2>1, LenProperties DEF Dealt
  <2>3. 0 % ChunkSize = 0
    BY ChunkAssumption
  <2>4. LoopInv'
    BY <2>1, <2>2, <2>3 DEF LoopInv, Back
  <2>5. new = <<>> => Len(new) = 0
    OBVIOUS
  <2> QED
    BY <2>1, <2>2, <2>3, <2>4, <2>5 DEF SentInv, Front, WholeChunks
<1>2. CASE Proceed /\ EstimateOk
  <2>1. /\ phase = "estimate" /\ phase' = "send"
        /\ UNCHANGED <<todo, list, sent, spoilt>>
    BY <1>2 DEF Proceed, EstimateOk, SendOk, Confirmed
  <2> QED
    BY <2>1 DEF LoopInv, SentInv, Running, Dealt, Front, Back, WholeChunks
<1>3. CASE Proceed /\ SendOk
  <2>1. /\ phase = "send" /\ phase' = "confirm"
        /\ sent' = sent \o Chunk /\ UNCHANGED <<todo, list, spoilt>>
    BY <1>3 DEF Proceed, EstimateOk, SendOk, Confirmed
  <2>2. /\ Len(sent') = Dealt + Len(Chunk)
        /\ Front(sent', list)
        /\ Len(sent') = Len(list) \/ Len(sent') % ChunkSize = 0
    BY <2>1, ChunkSent
  <2>3. Chunk' = Chunk /\ Dealt' = Dealt
    BY <2>1 DEF Chunk, Dealt
  <2>4. LoopInv'
    BY <2>1, <2>2, <2>3 DEF LoopInv, Running, Back
  <2> QED
    BY <2>1, <2>2, <2>4 DEF SentInv, Front, WholeChunks
<1>4. CASE Proceed /\ Confirmed
  <2>1. /\ phase = "confirm" /\ todo' = Rest /\ UNCHANGED <<list, sent, spoilt>>
        /\ phase' = IF Rest = <<>> THEN "ok" ELSE "estimate"
    BY <1>4 DEF Proceed, EstimateOk, SendOk, Confirmed
  <2>2. /\ Len(todo') <= Len(list') /\ Back(todo', list')
        /\ Len(sent') = Dealt'
        /\ Rest # <<>> => Dealt' % ChunkSize = 0
        /\ Rest = <<>> => Len(sent') = Len(list')
    BY <2>1, ChunkDealtWith
  <2>3. LoopInv'
    BY <2>1, <2>2 DEF LoopInv, Running, Back
  <2> QED
    BY <2>1, <2>2, <2>3 DEF SentInv, Front, WholeChunks
<1>5. CASE Fail
  <2>1. phase' \in {"ok", "err"} /\ spoilt' = TRUE /\ list' = list
    BY <1>5 DEF Fail, Fault, EstimateFails, ConfirmFails, SendFails
  <2>2. LoopInv'
    BY <2>1 DEF LoopInv, Running
  <2>3. Front(sent, list)' /\ WholeChunks(Len(sent))'
    <3>1. CASE sent' = sent
      BY <2>1, <3>1 DEF SentInv, Front, WholeChunks
    <3>2. CASE SendFails(TRUE) /\ sent' = sent \o Chunk
      BY <2>1, <3>2, ChunkSent DEF SendFails, Front, WholeChunks
    <3> QED
      BY <1>5, <3>1, <3>2 DEF Fail
  <2> QED
    BY <2>1, <2>2, <2>3 DEF SentInv
<1>6. CASE Done \/ MineNext
  <2>1. /\ UNCHANGED <<list, sent, spoilt, todo>>
        /\ phase' = phase \/ phase' = "idle"
    BY <1>6 DEF Done, Return, MineNext, Mine
  <2> QED
    BY <2>1 DEF LoopInv, SentInv, Running, Dealt, Front, Back, WholeChunks, Chunk
<1>7. CASE LoseNext
  <2>1. UNCHANGED <<list, sent, todo, phase>> /\ spoilt' = TRUE
    BY <1>7 DEF LoseNext, Lose, Fault
  <2> QED
    BY <2>1 DEF LoopInv, SentInv, Running, Dealt, Front, Back, WholeChunks, Chunk
<1>8. CASE UNCHANGED vars
  BY <1>8 DEF vars, smVars, LoopInv, SentInv, Running, Dealt, Front, Back, WholeChunks, Chunk
<1> QED
  BY <1>1, <1>2, <1>3, <1>4, <1>5, <1>6, <1>7, <1>8 DEF Next, Proceed

\* What the property says of sequences, the invariant says of their elements.
LEMMA SplitIsEachEntryOnce ==
  ASSUME TypeInv, LoopInv, SentInv
  PROVE  EachEntryOnce
<1>1. list \in Seq(Status) /\ sent \in Seq(Status) /\ todo \in Seq(Status)
  BY DEF TypeInv, TypeOK, SmTypeOK
<1>2. sent = SubSeq(list, 1, Len(sent))
  <2>1. /\ SubSeq(list, 0 + 1, Len(sent)) \in Seq(Status)
        /\ Len(SubSeq(list, 0 + 1, Len(sent))) = Len(sent)
        /\ \A i \in 1..Len(sent) : SubSeq(list, 0 + 1, Len(sent))[i] = list[i]
    BY <1>1, Lengths, PartOf DEF SentInv, Front
  <2>2. \A i \in 1..Len(sent) : sent[i] = list[i]
    BY DEF SentInv, Front
  <2> QED
    BY <1>1, <2>1, <2>2, SameSeq
<1>3. ASSUME Running
      PROVE  sent \o Unsent = list
  <2>1. todo # <<>> /\ Len(todo) <= Len(list) /\ Back(todo, list)
    BY <1>3 DEF LoopInv, TypeInv, Running
  <2>2. /\ Unsent \in Seq(Status) /\ Len(sent) + Len(Unsent) = Len(list) /\ Len(Unsent) \in Nat
        /\ \A i \in 1..Len(Unsent) : Unsent[i] = list[Len(sent) + i]
    <3>1. CASE phase = "confirm"
      <4>1. /\ Len(sent) = Dealt + Len(Chunk) /\ Unsent = Rest
        BY <1>3, <3>1 DEF LoopInv, Unsent
      <4>2. /\ Len(Chunk) \in 1..Len(todo) /\ Rest \in Seq(Status)
            /\ Len(Rest) = Len(todo) - Len(Chunk)
            /\ \A i \in 1..Len(Rest) : Rest[i] = todo[Len(Chunk) + i]
        BY <1>1, <2>1, ChunkOf
      <4>3. Len(sent) + Len(Rest) = Len(list) /\ Len(Rest) \in Nat
        BY <4>1, <4>2, Lengths DEF Dealt
      <4>4. ASSUME NEW i \in 1..Len(Rest)
            PROVE  Rest[i] = list[Len(sent) + i]
        <5>1. Len(Chunk) + i \in 1..Len(todo)
          BY <4>2, Lengths
        <5>2. todo[Len(Chunk) + i] = list[Len(list) - Len(todo) + (Len(Chunk) + i)]
          BY <2>1, <5>1 DEF Back
        <5>3. Len(list) - Len(todo) + (Len(Chunk) + i) = Len(sent) + i
          BY <4>1, <4>2, Lengths DEF Dealt
        <5> QED
          BY <4>2, <5>2, <5>3
      <4> QED
        BY <4>1, <4>2, <4>3, <4>4
    <3>2. CASE phase # "confirm"
      <4>1. Len(sent) = Dealt /\ Unsent = todo
        BY <1>3, <3>2 DEF LoopInv, Unsent
      <4> QED
        BY <1>1, <2>1, <4>1, Lengths DEF Dealt, Back
    <3> QED
      BY <3>1, <3>2
  <2> DEFINE whole == sent \o Unsent
  <2>3. /\ whole \in Seq(Status) /\ Len(whole) = Len(list)
        /\ \A i \in 1..Len(sent) : whole[i] = sent[i]
        /\ \A i \in 1..Len(whole) : i > Len(sent) => whole[i] = Unsent[i - Len(sent)]
    BY <1>1, <2>2, ConcatOf
  <2> HIDE DEF whole
  <2>4. ASSUME NEW i \in 1..Len(whole)
        PROVE  whole[i] = list[i]
    <3>1. CASE i <= Len(sent)
      BY <2>3, <3>1, Lengths DEF SentInv, Front
    <3>2. CASE i > Len(sent)
      <4>1. i - Len(sent) \in 1..Len(Unsent) /\ Len(sent) + (i - Len(sent)) = i
        BY <2>2, <2>3, <3>2, Lengths
      <4>2. Unsent[i - Len(sent)] = list[Len(sent) + (i - Len(sent))]
        BY <2>2, <4>1
      <4> QED
        BY <2>3, <3>2, <4>1, <4>2
    <3> QED
      BY <3>1, <3>2, Lengths, <2>3
  <2>5. whole = list
    BY <1>1, <2>3, <2>4, SameSeq
  <2> QED
    BY <2>5 DEF whole
<1>4. phase = "ok" /\ ~spoilt => sent = list
  <2> SUFFICES ASSUME phase = "ok", ~spoilt PROVE sent = list
    OBVIOUS
  <2>1. Len(sent) = Len(list) /\ \A i \in 1..Len(sent) : sent[i] = list[i]
    BY DEF SentInv, Front
  <2> QED
    BY <1>1, <2>1, SameSeq
<1> QED
  BY <1>2, <1>3, <1>4 DEF EachEntryOnce, SentInv, Running

\* Nothing is sent at first.
LEMMA SplitInit == Init => LoopInv /\ SentInv
<1> SUFFICES ASSUME Init PROVE LoopInv /\ SentInv
  OBVIOUS
<1>1. Len(sent) = 0 /\ Len(list) = 0 /\ phase = "idle"
  BY DEF Init
<1> QED
  BY <1>1 DEF LoopInv, SentInv, Running, Front, WholeChunks

\* So deny_many keeps to its vector throughout.
LEMMA SplitInvariance == Spec => [](TypeInv /\ LoopInv /\ SentInv)
<1>1. TypeInv /\ TypeInv' /\ LoopInv /\ SentInv /\ [Next]_vars => (LoopInv /\ SentInv)'
  BY SplitStep
<1> QED
  BY TypeInvariance, SplitInit, <1>1, PTL DEF Spec

\* For chunks of any size and vectors of any length: every entry is sent once and in
\* order, whatever fails is sent up to the end of a chunk, and if nothing fails all
\* of it is.
THEOREM EntriesAreSentOnce == Spec => []EachEntryOnce
<1>1. TypeInv /\ LoopInv /\ SentInv => EachEntryOnce
  BY SplitIsEachEntryOnce
<1> QED
  BY SplitInvariance, <1>1, PTL

-----------------------------------------------------------------------------
(* What the denylist says *)

\* The denylist agrees with the last word of the n first entries sent, so far as
\* the later ones do not speak of the same deployment.
Agree(n) ==
  \A d \in Deployments : \A j \in 1..n : Latest(sent, j, d) => flags[d] = sent[j].deny

\* A transaction of this call is alone in the mempool, but for the first, which an
\* earlier call's may be before.
AloneInv ==
  /\ phase \in {"estimate", "send", "ok"} => sent = <<>> \/ mempool = <<>>
  /\ phase = "confirm" => Len(mempool) <= 1 \/ Len(sent) = Len(Chunk)

\* The denylist agrees with the chunks that are settled; the one that is waited for
\* is the last in the mempool until it is settled too.
AgreeInv ==
  ~spoilt =>
    /\ phase \in {"estimate", "send", "ok"} => Agree(Len(sent))
    /\ phase = "confirm" =>
         IF mempool = <<>> THEN Agree(Len(sent))
         ELSE mempool[Len(mempool)] = Chunk /\ Agree(Len(sent) - Len(Chunk))

\* While it is waited for, the chunk is the end of what was sent.
LEMMA ChunkIsBack ==
  ASSUME TypeInv, LoopInv, SentInv, phase = "confirm"
  PROVE  /\ Chunk \in Seq(Status) /\ Len(Chunk) \in 1..Len(sent)
         /\ Back(Chunk, sent) /\ Len(sent) - Len(Chunk) \in Nat
<1>1. todo \in Seq(Status) /\ todo # <<>>
  BY DEF TypeInv, TypeOK, SmTypeOK
<1>2. /\ Len(todo) <= Len(list) /\ Back(todo, list)
      /\ Len(sent) = Dealt + Len(Chunk)
  BY DEF LoopInv, Running
<1>3. /\ Chunk \in Seq(Status) /\ Len(Chunk) \in 1..Len(todo)
      /\ \A i \in 1..Len(Chunk) : Chunk[i] = todo[i]
  BY <1>1, ChunkOf
<1>4. Len(sent) - Len(Chunk) = Dealt /\ Dealt \in Nat /\ Len(Chunk) \in 1..Len(sent)
  BY <1>2, <1>3, Lengths DEF Dealt
<1>5. ASSUME NEW i \in 1..Len(Chunk)
      PROVE  Chunk[i] = sent[Len(sent) - Len(Chunk) + i]
  <2>1. i \in 1..Len(todo) /\ Dealt + i \in 1..Len(sent)
    BY <1>2, <1>3, <1>4, Lengths
  <2>2. todo[i] = list[Dealt + i]
    BY <1>2, <2>1 DEF Back, Dealt
  <2>3. sent[Dealt + i] = list[Dealt + i]
    BY <2>1 DEF SentInv, Front
  <2> QED
    BY <1>3, <1>4, <2>2, <2>3
<1> QED
  BY <1>3, <1>4, <1>5 DEF Back

\* The chunk that is waited for is mined: the denylist takes its last word, and what
\* it says nothing about stays as the chunks before it left it.
LEMMA ChunkMined ==
  ASSUME TypeInv, LoopInv, SentInv, phase = "confirm", Agree(Len(sent) - Len(Chunk)),
         flags' = Applied(Chunk), sent' = sent
  PROVE  Agree(Len(sent))'
<1> DEFINE m == Len(sent) - Len(Chunk)
<1>1. /\ Chunk \in Seq(Status) /\ Len(Chunk) \in 1..Len(sent)
      /\ m \in Nat /\ \A i \in 1..Len(Chunk) : Chunk[i] = sent[m + i]
  BY ChunkIsBack DEF Back
<1>2. DOMAIN sent = 1..Len(sent) /\ DOMAIN Chunk = 1..Len(Chunk) /\ Len(sent) \in Nat
  BY <1>1, LenProperties DEF TypeInv, TypeOK
<1>3. Len(sent) = m + Len(Chunk) /\ \A d \in Deployments : \A j \in 1..m :
        Latest(sent, j, d) => flags[d] = sent[j].deny
  BY <1>1, <1>2 DEF Agree
<1> SUFFICES ASSUME NEW d \in Deployments, NEW j \in 1..Len(sent), Latest(sent, j, d)
             PROVE  flags'[d] = sent[j].deny
  BY DEF Agree, Latest
<1> HIDE DEF m
<1>4. CASE j <= m
  <2>1. flags[d] = sent[j].deny
    BY <1>1, <1>3, <1>4
  <2>2. ASSUME NEW i \in 1..Len(Chunk)
        PROVE  Chunk[i].id # d
    <3>1. m + i \in DOMAIN sent /\ m + i > j
      BY <1>1, <1>2, <1>3, <1>4
    <3> QED
      BY <1>1, <3>1 DEF Latest
  <2> QED
    BY <1>1, <2>1, <2>2, AppliedSays
<1>5. CASE j > m
  <2> DEFINE i == j - m
  <2>1. i \in 1..Len(Chunk) /\ m + i = j
    BY <1>1, <1>2, <1>3, <1>5
  <2> HIDE DEF i
  <2>2. Chunk[i] = sent[j]
    BY <1>1, <2>1
  <2>3. ASSUME NEW k \in DOMAIN Chunk, k > i
        PROVE  Chunk[k].id # d
    <3>1. m + k \in DOMAIN sent /\ m + k > j /\ k \in 1..Len(Chunk)
      BY <1>1, <1>2, <1>3, <2>1, <2>3
    <3> QED
      BY <1>1, <3>1 DEF Latest
  <2>4. Latest(Chunk, i, d)
    BY <2>2, <2>3 DEF Latest
  <2> QED
    BY <1>1, <2>1, <2>2, <2>4, AppliedSays
<1> QED
  BY <1>1, <1>2, <1>4, <1>5

\* The transactions of a call come one at a time.
LEMMA AloneStep ==
  ASSUME TypeInv, TypeInv', LoopInv, AloneInv, [Next]_vars
  PROVE  AloneInv'
<1>0. mempool \in Seq(Seq(Status)) /\ Len(mempool) \in Nat
  BY LenProperties DEF TypeInv, TypeOK, SmTypeOK
<1>1. ASSUME NEW new \in Lists, Call(new)
      PROVE  AloneInv'
  BY <1>1 DEF Call, DenyMany, AloneInv
<1>2. CASE Proceed /\ EstimateOk
  BY <1>2 DEF Proceed, EstimateOk, SendOk, Confirmed, AloneInv
<1>3. CASE Proceed /\ SendOk
  <2>1. /\ phase = "send" /\ phase' = "confirm" /\ sent' = sent \o Chunk
        /\ mempool' \in Accepting(Chunk) /\ todo' = todo
    BY <1>3 DEF Proceed, EstimateOk, SendOk, Confirmed
  <2>2. Chunk \in Seq(Status) /\ Chunk' = Chunk
    BY <2>1, ChunkOf DEF TypeInv, TypeOK, SmTypeOK, Chunk
  <2>3. CASE sent = <<>>
    <3>1. Len(<<>> \o Chunk) = Len(Chunk)
      BY <2>2
    <3> QED
      BY <2>1, <2>2, <2>3, <3>1 DEF AloneInv
  <2>4. CASE mempool = <<>>
    <3>1. Len(mempool') = 1
      BY <1>0, <2>1, <2>2, <2>4, AcceptingTyped
    <3> QED
      BY <2>1, <3>1 DEF AloneInv
  <2> QED
    BY <2>1, <2>3, <2>4 DEF AloneInv
<1>4. CASE Proceed /\ Confirmed
  BY <1>4 DEF Proceed, EstimateOk, SendOk, Confirmed, Settled, AloneInv
<1>5. CASE Fail
  <2>1. CASE phase' = "err"
    BY <2>1 DEF AloneInv
  <2>2. CASE EstimateFails
    BY <1>5, <2>2 DEF Fail, EstimateFails, ConfirmFails, SendFails, AloneInv
  <2> QED
    BY <1>5, <2>1, <2>2 DEF Fail, ConfirmFails, SendFails
<1>6. CASE Done
  BY <1>6 DEF Done, Return, AloneInv
<1>7. CASE MineNext \/ LoseNext
  <2>1. /\ mempool # <<>> /\ mempool' = Tail(mempool) /\ UNCHANGED <<todo, phase, sent>>
    BY <1>7 DEF MineNext, Mine, LoseNext, Lose
  <2>2. Len(mempool') <= Len(mempool)
    BY <1>0, <2>1, HeadTailOf
  <2>3. Len(mempool) <= 1 => Len(mempool') <= 1
    BY <1>0, <2>1, HeadTailOf
  <2> QED
    BY <2>1, <2>3 DEF AloneInv, Chunk
<1>8. CASE UNCHANGED vars
  BY <1>8 DEF vars, smVars, AloneInv, Chunk
<1> QED
  BY <1>1, <1>2, <1>3, <1>4, <1>5, <1>6, <1>7, <1>8 DEF Next, Proceed

\* Every step of a call that goes well keeps the denylist in agreement with the
\* chunks that are settled.
LEMMA AgreeStep ==
  ASSUME TypeInv, TypeInv', LoopInv, SentInv, AloneInv, AgreeInv, [Next]_vars
  PROVE  AgreeInv'
<1>0. mempool \in Seq(Seq(Status)) /\ Len(mempool) \in Nat /\ Len(sent) \in Nat
  BY LenProperties DEF TypeInv, TypeOK, SmTypeOK
<1>1. ASSUME NEW new \in Lists, Call(new)
      PROVE  AgreeInv'
  <2>1. sent' = <<>> /\ phase' # "confirm"
    BY <1>1 DEF Call, DenyMany
  <2>2. Agree(Len(sent))'
    BY <2>1 DEF Agree
  <2> QED
    BY <2>1, <2>2 DEF AgreeInv
<1>2. CASE Proceed /\ EstimateOk
  <2>1. phase = "estimate" /\ phase' = "send" /\ UNCHANGED <<flags, sent, spoilt>>
    BY <1>2 DEF Proceed, EstimateOk, SendOk, Confirmed
  <2> QED
    BY <2>1 DEF AgreeInv, Agree, Latest
<1>3. CASE Proceed /\ SendOk
  <2> SUFFICES ASSUME ~spoilt'
               PROVE  AgreeInv'
    BY DEF AgreeInv
  <2>1. /\ phase = "send" /\ phase' = "confirm" /\ sent' = sent \o Chunk
        /\ mempool' \in Accepting(Chunk) /\ UNCHANGED <<todo, flags, spoilt>>
    BY <1>3 DEF Proceed, EstimateOk, SendOk, Confirmed
  <2>2. Chunk \in Seq(Status) /\ Chunk' = Chunk
    BY <2>1, ChunkOf DEF TypeInv, TypeOK, SmTypeOK, Chunk
  <2>3. mempool' # <<>> /\ mempool'[Len(mempool')] = Chunk
    BY <1>0, <2>1, <2>2, AcceptingTyped
  <2> DEFINE whole == sent \o Chunk
  <2>4. /\ sent \in Seq(Status) /\ whole \in Seq(Status)
        /\ Len(whole) = Len(sent) + Len(Chunk) /\ Len(Chunk) \in Nat
        /\ \A i \in 1..Len(sent) : whole[i] = sent[i]
    BY <2>2, ConcatOf DEF TypeInv, TypeOK
  <2>5. sent' = whole
    BY <2>1
  <2> HIDE DEF whole
  <2>6. Len(sent') - Len(Chunk)' = Len(sent)
    BY <1>0, <2>2, <2>4, <2>5
  <2>7. DOMAIN sent = 1..Len(sent) /\ DOMAIN whole = 1..Len(whole)
    BY <2>4, LenProperties
  <2>8. ASSUME NEW d \in Deployments, NEW j \in 1..Len(sent), Latest(whole, j, d)
        PROVE  flags[d] = whole[j].deny
    <3>1. Latest(sent, j, d)
      BY <1>0, <2>4, <2>7, <2>8 DEF Latest
    <3> QED
      BY <2>1, <2>4, <3>1 DEF AgreeInv, Agree
  <2>9. Agree(Len(sent) - Len(Chunk))'
    BY <2>1, <2>5, <2>6, <2>8 DEF Agree, Latest
  <2> QED
    BY <2>1, <2>2, <2>3, <2>9 DEF AgreeInv
<1>4. CASE Proceed /\ Confirmed
  <2>1. /\ phase = "confirm" /\ mempool = <<>> /\ phase' \in {"ok", "estimate"}
        /\ UNCHANGED <<flags, sent, spoilt>>
    BY <1>4 DEF Proceed, EstimateOk, SendOk, Confirmed, Settled
  <2> QED
    BY <2>1 DEF AgreeInv, Agree, Latest
<1>5. CASE Fail \/ LoseNext
  BY <1>5 DEF Fail, LoseNext, Fault, AgreeInv
<1>6. CASE Done
  BY <1>6 DEF Done, Return, AgreeInv
<1>7. CASE MineNext
  <2> SUFFICES ASSUME ~spoilt'
               PROVE  AgreeInv'
    BY DEF AgreeInv
  <2>1. /\ mempool # <<>> /\ mempool' = Tail(mempool) /\ flags' = Applied(Head(mempool))
        /\ UNCHANGED <<todo, phase, sent, spoilt>> /\ Chunk' = Chunk
    BY <1>7 DEF MineNext, Mine, Chunk
  <2>2. /\ Head(mempool) = mempool[1] /\ Len(mempool) >= 1
        /\ Tail(mempool) \in Seq(Seq(Status)) /\ Len(mempool') = Len(mempool) - 1
        /\ \A i \in 1..Len(mempool') : mempool'[i] = mempool[i + 1]
    BY <1>0, <2>1, HeadTailOf
  <2>3. mempool' = <<>> <=> Len(mempool') = 0
    BY <2>1, <2>2, EmptyOf
  <2>4. CASE phase \in {"estimate", "send", "ok"}
    <3>1. sent' = <<>>
      BY <2>1, <2>4 DEF AloneInv
    <3> QED
      BY <2>1, <2>4, <3>1 DEF AgreeInv, Agree
  <2>5. CASE phase = "confirm" /\ Len(mempool) = 1
    <3>1. mempool' = <<>>
      BY <1>0, <2>2, <2>3, <2>5
    <3>2. Head(mempool) = Chunk /\ Agree(Len(sent) - Len(Chunk))
      BY <2>1, <2>2, <2>5 DEF AgreeInv
    <3>3. Agree(Len(sent))'
      BY <2>1, <2>5, <3>2, ChunkMined
    <3> QED
      BY <2>1, <2>5, <3>1, <3>3 DEF AgreeInv
  <2>6. CASE phase = "confirm" /\ Len(mempool) # 1
    <3>1. mempool' # <<>> /\ mempool'[Len(mempool')] = Chunk
      <4>1. mempool[Len(mempool)] = Chunk
        BY <2>1, <2>6 DEF AgreeInv
      <4>2. Len(mempool') \in 1..Len(mempool') /\ Len(mempool') + 1 = Len(mempool)
        BY <1>0, <2>2, <2>6
      <4>3. mempool' # <<>>
        BY <2>3, <4>2
      <4> QED
        BY <2>2, <4>1, <4>2, <4>3
    <3>2. Len(sent) - Len(Chunk) = 0
      BY <1>0, <2>2, <2>6 DEF AloneInv
    <3>3. Agree(Len(sent) - Len(Chunk))'
      BY <2>1, <3>2 DEF Agree
    <3> QED
      BY <2>1, <2>6, <3>1, <3>3 DEF AgreeInv
  <2>7. CASE phase \notin {"estimate", "send", "ok", "confirm"}
    BY <2>1, <2>7 DEF AgreeInv
  <2> QED
    BY <2>4, <2>5, <2>6, <2>7
<1>8. CASE UNCHANGED vars
  <2>1. /\ UNCHANGED <<todo, mempool, flags, phase, sent, spoilt>>
        /\ Chunk' = Chunk
    BY <1>8 DEF vars, smVars, Chunk
  <2>2. ASSUME NEW n
        PROVE  Agree(n)' <=> Agree(n)
    BY <2>1 DEF Agree, Latest
  <2>3. Agree(Len(sent))' <=> Agree(Len(sent))
    BY <2>1, <2>2
  <2>4. Agree(Len(sent) - Len(Chunk))' <=> Agree(Len(sent) - Len(Chunk))
    BY <2>1, <2>2
  <2> QED
    BY <2>1, <2>3, <2>4 DEF AgreeInv
<1> QED
  BY <1>1, <1>2, <1>3, <1>4, <1>5, <1>6, <1>7, <1>8 DEF Next, Proceed

\* All of it together, from the beginning.
Inv == TypeInv /\ LoopInv /\ SentInv /\ AloneInv /\ AgreeInv

\* So it holds throughout.
LEMMA Invariance == Spec => []Inv
<1>1. Init => AloneInv /\ AgreeInv
  BY DEF Init, AloneInv, AgreeInv
<1>2. TypeInv /\ TypeInv' /\ LoopInv /\ SentInv /\ AloneInv /\ AgreeInv /\ [Next]_vars
        => (AloneInv /\ AgreeInv)'
  BY AloneStep, AgreeStep
<1> QED
  BY SplitInvariance, <1>1, <1>2, PTL DEF Spec, Inv

\* The entries of `sent' are those at its places.
LEMMA AgreeOnSent ==
  ASSUME TypeInv
  PROVE  Agree(Len(sent)) <=>
           \A d \in Deployments : \A j \in DOMAIN sent :
             Latest(sent, j, d) => flags[d] = sent[j].deny
BY LenProperties DEF TypeInv, TypeOK, Agree

\* For chunks of any size: between two chunks and at the end of a call in which
\* nothing went wrong, the denylist agrees with the last word of what was sent, also
\* about a deployment with several entries in one chunk or in several.
THEOREM ChunksAreSettled == Spec => []SettledBetweenChunks
<1>1. Inv => SettledBetweenChunks
  BY AgreeOnSent DEF Inv, AgreeInv, SettledBetweenChunks
<1> QED
  BY Invariance, <1>1, PTL

\* So a call that returns Ok, and in which nothing went wrong, leaves every deployment
\* of its vector as the last entry about it says, however many there are.
THEOREM OkMeansApplied ==
  Spec => [](phase = "ok" /\ ~spoilt =>
               \A d \in Deployments : \A j \in DOMAIN list :
                 Latest(list, j, d) => flags[d] = list[j].deny)
<1>1. EachEntryOnce /\ SettledBetweenChunks =>
        (phase = "ok" /\ ~spoilt =>
           \A d \in Deployments : \A j \in DOMAIN list :
             Latest(list, j, d) => flags[d] = list[j].deny)
  BY DEF EachEntryOnce, SettledBetweenChunks
<1> QED
  BY EntriesAreSentOnce, ChunksAreSettled, <1>1, PTL

-----------------------------------------------------------------------------
(* How a call ends *)

\* The distance is a number.
LEMMA DistanceStep ==
  ASSUME TypeInv, [Next]_vars, phase \in {"estimate", "send", "confirm"}
  PROVE  Distance' < Distance \/ UNCHANGED <<todo, phase>>
<1>1. /\ todo \in Seq(Status) /\ todo # <<>> /\ Len(todo) \in Nat /\ Len(todo) >= 1
  BY Lengths DEF TypeInv, TypeOK, SmTypeOK, Running
<1>2. ASSUME NEW new \in Lists, Call(new)
      PROVE  FALSE
  BY <1>2 DEF Call, DenyMany
<1>3. CASE Done
  BY <1>3 DEF Done, Return
<1>4. CASE MineNext \/ LoseNext \/ UNCHANGED vars
  BY <1>4 DEF MineNext, Mine, LoseNext, Lose, vars, smVars
<1>5. CASE Fail
  <2>1. phase' \in {"ok", "err"}
    BY <1>5 DEF Fail, EstimateFails, ConfirmFails, SendFails
  <2> QED
    BY <1>1, <2>1 DEF Distance
<1>6. CASE EstimateOk \/ SendOk
  <2>1. /\ todo' = todo
        /\ \/ phase = "estimate" /\ phase' = "send"
           \/ phase = "send" /\ phase' = "confirm"
    BY <1>6 DEF EstimateOk, SendOk
  <2> QED
    BY <1>1, <2>1 DEF Distance
<1>7. CASE Confirmed
  <2>1. phase = "confirm" /\ todo' = Rest /\ phase' \in {"ok", "estimate"}
    BY <1>7 DEF Confirmed
  <2>2. Len(Rest) \in Nat /\ Len(Rest) <= Len(todo) - 1
    BY <1>1, ChunkOf, LenProperties
  <2> QED
    BY <1>1, <2>1, <2>2 DEF Distance
<1> QED
  BY <1>2, <1>3, <1>4, <1>5, <1>6, <1>7 DEF Next, Proceed

\* For chunks of any size, every step of a call is one nearer to its end: the loop
\* ends whatever the node answers, if it answers.
THEOREM CallsAdvance == Spec => CallAdvances
<1>1. TypeInv /\ [Next]_vars =>
        [(phase \in {"estimate", "send", "confirm"}) =>
           Distance' < Distance \/ UNCHANGED <<todo, phase>>]_vars
  BY DistanceStep
<1> QED
  BY TypeInvariance, <1>1, PTL DEF Spec, CallAdvances

=============================================================================
