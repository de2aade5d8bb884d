---------------------------- MODULE StreamProofs ----------------------------
(***************************************************************************)
(* Theorems about StreamReader, for any deployments, any size of a page    *)
(* and any number of changes of the list.                                  *)
(***************************************************************************)
EXTENDS StreamReader, SequenceTheorems, FiniteSetTheorems, TLAPS

-----------------------------------------------------------------------------
(* Ranks *)

\* Ranks are numbers, and smaller than the length of the list.
LEMMA RankBounds ==
  ASSUME listed \in SUBSET Deployments, NEW d
  PROVE  /\ Rank(d) \in Nat /\ Cardinality(listed) \in Nat
         /\ d \in listed => Rank(d) < Cardinality(listed)
<1> DEFINE below == {e \in listed : e < d}
<1>1. IsFiniteSet(listed) /\ Cardinality(listed) \in Nat
  BY StreamAssumption, FS_Subset, FS_CardinalityType
<1>2. below \subseteq listed /\ (d \in listed => d \notin below)
  <2>1. d \in listed => d \in Nat /\ ~(d < d)
    BY StreamAssumption
  <2> QED
    BY <2>1
<1>3. Rank(d) = Cardinality(below)
  BY DEF Rank
<1> HIDE DEF below
<1>4. IsFiniteSet(below) /\ Cardinality(below) \in Nat /\ Cardinality(below) <= Cardinality(listed)
  BY <1>1, <1>2, FS_Subset, FS_CardinalityType
<1>5. Cardinality(below) = Cardinality(listed) => below = listed
  BY <1>1, <1>2, FS_Subset
<1> QED
  BY <1>1, <1>2, <1>3, <1>4, <1>5

\* They grow and shrink with the list.
LEMMA RankMonotonic ==
  ASSUME listed \in SUBSET Deployments, listed' \in SUBSET Deployments, NEW d
  PROVE  /\ listed \subseteq listed' => Rank(d) <= Rank(d)'
         /\ listed' \subseteq listed => Rank(d)' <= Rank(d)
<1> DEFINE below == {e \in listed : e < d}
           after == {e \in listed' : e < d}
<1>1. IsFiniteSet(listed) /\ IsFiniteSet(listed')
  BY StreamAssumption, FS_Subset
<1>2. below \subseteq listed /\ after \subseteq listed'
  OBVIOUS
<1>3. /\ listed \subseteq listed' => below \subseteq after
      /\ listed' \subseteq listed => after \subseteq below
  OBVIOUS
<1>4. Rank(d) = Cardinality(below) /\ Rank(d)' = Cardinality(after)
  BY DEF Rank
<1> HIDE DEF below, after
<1>5. IsFiniteSet(below) /\ IsFiniteSet(after)
  BY <1>1, <1>2, FS_Subset
<1> QED
  BY <1>3, <1>4, <1>5, FS_Subset

-----------------------------------------------------------------------------
(* Types *)

\* One more deployment was read.
LEMMA Yielded ==
  ASSUME yielded \in Seq(Deployment), NEW x \in Deployment, yielded' = Append(yielded, x)
  PROVE  /\ yielded' \in Seq(Deployment)
         /\ DOMAIN yielded = 1..Len(yielded) /\ DOMAIN yielded' = 1..(Len(yielded) + 1)
         /\ Len(yielded) \in Nat
         /\ \A i \in 1..Len(yielded) : yielded'[i] = yielded[i]
         /\ yielded'[Len(yielded) + 1] = x
         /\ Ids' = Ids \cup {x.id}
<1>1. /\ yielded' \in Seq(Deployment)
      /\ DOMAIN yielded = 1..Len(yielded) /\ DOMAIN yielded' = 1..(Len(yielded) + 1)
      /\ Len(yielded) \in Nat
      /\ \A i \in 1..Len(yielded) : yielded'[i] = yielded[i]
      /\ yielded'[Len(yielded) + 1] = x
  OBVIOUS
<1>2. \A i \in 1..(Len(yielded) + 1) : i \in 1..Len(yielded) \/ i = Len(yielded) + 1
  BY <1>1
<1>3. 1..Len(yielded) \subseteq 1..(Len(yielded) + 1) /\ Len(yielded) + 1 \in 1..(Len(yielded) + 1)
  BY <1>1
<1>4. Ids' = Ids \cup {x.id}
  BY <1>1, <1>2, <1>3 DEF Ids
<1> QED
  BY <1>1, <1>4

\* Every step keeps the types.
LEMMA TypeStep ==
  ASSUME TypeOK, [Next]_vars
  PROVE  TypeOK'
<1>0. /\ listed \in SUBSET Deployments /\ skip \in Nat /\ page \in SUBSET Deployment
      /\ yielded \in Seq(Deployment) /\ always \in SUBSET Deployments
      /\ changes \in 0..MaxChanges /\ MaxChanges \in Nat /\ PageSize \in Nat
  BY StreamAssumption, StreamReaderAssumption DEF TypeOK, DsTypeOK
<1>1. CASE Fetch
  <2>1. /\ UNCHANGED <<listed, indexed, yielded, always, shrunk, grown, erred, changes>>
        /\ ended' = TRUE \/ ended' = ended
    BY <1>1, Zenon DEF Fetch, FetchPage, histVars
  <2>2. skip' \in Nat /\ page' \in SUBSET Deployment
    <3>1. PageAt(skip) \in SUBSET Deployment
      <4>1. \A d \in listed : indexed[d] \in BOOLEAN
        BY <1>0, Zenon DEF TypeOK, DsTypeOK
      <4>2. \A d \in listed : [id |-> d, deny |-> indexed[d]] \in Deployment
        BY <1>0, <4>1, Zenon DEF Deployment
      <4> QED
        BY <4>2 DEF PageAt
    <3> QED
      BY <1>0, <1>1, <3>1 DEF Fetch, FetchPage, NextSkip
  <2>3. ended' \in BOOLEAN
    BY <2>1, Zenon DEF TypeOK, DsTypeOK
  <2> QED
    BY <2>1, <2>2, <2>3, Zenon DEF TypeOK, DsTypeOK
<1>2. CASE Fail
  <2>1. /\ UNCHANGED <<listed, indexed, page, ended, yielded, always, shrunk, grown>>
        /\ erred' = TRUE
    BY <1>2, Zenon DEF Fail, FetchFails
  <2>2. skip' \in Nat /\ changes' \in 0..MaxChanges
    BY <1>0, <1>2 DEF Fail, FetchFails, NextSkip, Change
  <2> QED
    BY <2>1, <2>2, Zenon DEF TypeOK, DsTypeOK
<1>3. ASSUME NEW x \in page, Read(x)
      PROVE  TypeOK'
  <2>1. UNCHANGED <<listed, indexed, skip, ended, always, shrunk, grown, erred, changes>>
    BY <1>3, Zenon DEF Read, Take
  <2>2. page' \in SUBSET Deployment /\ yielded' \in Seq(Deployment)
    BY <1>0, <1>3, Yielded DEF Read, Take
  <2> QED
    BY <2>1, <2>2, Zenon DEF TypeOK, DsTypeOK
<1>4. ASSUME NEW new \in SUBSET Deployments, Resignal(new)
      PROVE  TypeOK'
  <2>1. /\ UNCHANGED <<indexed, skip, page, ended, yielded, erred>>
        /\ listed' = new /\ always' = always \cap new
        /\ shrunk' \in BOOLEAN /\ grown' \in BOOLEAN
    BY <1>4, Zenon DEF Resignal, Relist
  <2>2. always' \in SUBSET Deployments /\ changes' \in 0..MaxChanges
    BY <1>0, <1>4, <2>1 DEF Resignal, Change
  <2> QED
    BY <2>1, <2>2, Zenon DEF TypeOK, DsTypeOK
<1>5. ASSUME NEW denied \in [Deployments -> BOOLEAN], IndexBlock(denied)
      PROVE  TypeOK'
  <2>1. /\ UNCHANGED <<listed, skip, page, ended, yielded, always, shrunk, grown, erred>>
        /\ indexed' = denied
    BY <1>5, Zenon DEF IndexBlock, Index, histVars
  <2>2. changes' \in 0..MaxChanges
    BY <1>0, <1>5 DEF IndexBlock, Change
  <2> QED
    BY <2>1, <2>2, Zenon DEF TypeOK, DsTypeOK
<1>6. CASE UNCHANGED vars
  BY <1>6, Zenon DEF vars, dsVars, histVars, TypeOK, DsTypeOK
<1> QED
  BY <1>1, <1>2, <1>3, <1>4, <1>5, <1>6 DEF Next

-----------------------------------------------------------------------------
(* What the reader has, and what it is yet to get *)

\* The deployments of what is left of the page.
OnPage == {x.id : x \in page}

\* While none leaves the list, its ranks only grow: none slips below the next page.
CoverInv ==
  /\ always \subseteq listed
  /\ ended => page = {}
  /\ ~shrunk /\ ~erred =>
       \A d \in always : d \in Ids \/ d \in OnPage \/ (~ended /\ skip <= Rank(d))

\* While none joins the list, its ranks only shrink: none climbs back above the pages
\* that were read.
RepeatInv ==
  /\ \A x, y \in page : x.id = y.id => x = y
  /\ OnPage \subseteq Deployments /\ Ids \subseteq Deployments
  /\ ~grown =>
       /\ \A d \in Ids \cup OnPage : d \in listed => Rank(d) < skip
       /\ Ids \cap OnPage = {}
       /\ NoRepeatUnlessGrown

\* A page has what the list has between two ranks.
LEMMA PageOf ==
  /\ \A d : d \in {x.id : x \in PageAt(skip)} <=>
       d \in listed /\ skip <= Rank(d) /\ Rank(d) < skip + PageSize
  /\ \A x, y \in PageAt(skip) : x.id = y.id => x = y
<1> DEFINE there == {e \in listed : skip <= Rank(e) /\ Rank(e) < skip + PageSize}
<1>1. \A x : x \in PageAt(skip) <=> \E d \in there : x = [id |-> d, deny |-> indexed[d]]
  BY DEF PageAt
<1>2. \A d : d \in {x.id : x \in PageAt(skip)} <=> d \in there
  <2> HIDE DEF there
  <2>1. ASSUME NEW d \in there
        PROVE  d \in {x.id : x \in PageAt(skip)}
    <3>1. [id |-> d, deny |-> indexed[d]] \in PageAt(skip)
      BY <1>1, <2>1
    <3>2. [id |-> d, deny |-> indexed[d]].id = d
      OBVIOUS
    <3> QED
      BY <3>1, <3>2
  <2>2. \A x \in PageAt(skip) : x.id \in there
    BY <1>1
  <2> QED
    BY <2>1, <2>2
<1>3. \A x, y \in PageAt(skip) : x.id = y.id => x = y
  <2> HIDE DEF there
  <2> QED
    BY <1>1
<1> QED
  BY <1>2, <1>3

\* A page is read.
LEMMA FetchStep ==
  ASSUME TypeOK, CoverInv, RepeatInv, Fetch
  PROVE  CoverInv' /\ RepeatInv'
<1>0. /\ listed \in SUBSET Deployments /\ skip \in Nat /\ PageSize \in Nat
      /\ \A d : Rank(d) \in Nat
  BY StreamAssumption, RankBounds DEF TypeOK, DsTypeOK
<1>1. /\ ~ended /\ page = {}
      /\ listed' = listed /\ yielded' = yielded /\ always' = always
      /\ shrunk' = shrunk /\ grown' = grown /\ erred' = erred
  BY DEF Fetch, FetchPage, histVars
<1>2. Ids' = Ids /\ OnPage = {} /\ (\A d : Rank(d)' = Rank(d))
  BY <1>1 DEF Ids, OnPage, Rank
<1>3. CASE PageEmpty(skip)
  <2>1. ended' /\ UNCHANGED <<page, skip>>
    BY <1>3 DEF Fetch, FetchPage
  <2>2. OnPage' = OnPage
    BY <2>1 DEF OnPage
  <2>3. \A d \in listed : Rank(d) < skip
    BY <1>0, <1>3, RankBounds DEF PageEmpty
  <2>4. ~shrunk /\ ~erred => \A d \in always : d \in Ids
    BY <1>0, <1>2, <2>3 DEF CoverInv
  <2>5. CoverInv'
    BY <1>1, <1>2, <2>1, <2>4 DEF CoverInv
  <2>6. RepeatInv'
    BY <1>1, <1>2, <2>1, <2>2 DEF RepeatInv, NoRepeatUnlessGrown
  <2> QED
    BY <2>5, <2>6
<1>4. CASE ~PageEmpty(skip)
  <2>1. page' = PageAt(skip) /\ skip' = skip + PageSize /\ ended' = ended
    BY <1>4 DEF Fetch, FetchPage, NextSkip
  <2>2. /\ \A d : d \in OnPage' <=>
             d \in listed /\ skip <= Rank(d) /\ Rank(d) < skip + PageSize
        /\ \A x, y \in page' : x.id = y.id => x = y
    BY <2>1, PageOf DEF OnPage
  <2>3. \A d \in listed : skip <= Rank(d) => d \in OnPage' \/ skip' <= Rank(d)
    BY <1>0, <2>1, <2>2
  <2>4. CoverInv'
    <3>1. ASSUME ~shrunk, ~erred, NEW d \in always
          PROVE  d \in Ids \/ d \in OnPage' \/ (~ended' /\ skip' <= Rank(d))
      BY <1>1, <1>2, <2>1, <2>3, <3>1 DEF CoverInv
    <3> QED
      BY <1>1, <1>2, <2>1, <3>1 DEF CoverInv
  <2>5. RepeatInv'
    <3>1. ASSUME ~grown
          PROVE  /\ \A d \in Ids \cup OnPage' : d \in listed => Rank(d) < skip'
                 /\ Ids \cap OnPage' = {}
      <4>1. \A d \in Ids : d \in listed => Rank(d) < skip
        BY <3>1 DEF RepeatInv
      <4> QED
        BY <1>0, <2>1, <2>2, <4>1
    <3>2. OnPage' \subseteq Deployments
      BY <1>0, <2>2
    <3> QED
      BY <1>1, <1>2, <2>2, <3>1, <3>2 DEF RepeatInv, NoRepeatUnlessGrown
  <2> QED
    BY <2>4, <2>5
<1> QED
  BY <1>3, <1>4

\* A query fails, and its page is left out.
LEMMA FailStep ==
  ASSUME TypeOK, CoverInv, RepeatInv, Fail
  PROVE  CoverInv' /\ RepeatInv'
<1>1. /\ skip' = skip + PageSize /\ page' = page /\ ended' = ended /\ erred'
      /\ listed' = listed /\ yielded' = yielded /\ always' = always /\ grown' = grown
  BY DEF Fail, FetchFails, NextSkip
<1>2. Ids' = Ids /\ OnPage' = OnPage /\ (\A d : Rank(d)' = Rank(d))
  BY <1>1 DEF Ids, OnPage, Rank
<1>3. skip \in Nat /\ PageSize \in Nat /\ \A d : Rank(d) \in Nat
  BY StreamAssumption, RankBounds DEF TypeOK, DsTypeOK
<1>4. CoverInv'
  BY <1>1 DEF CoverInv
<1>5. ~grown => \A d \in Ids \cup OnPage : d \in listed => Rank(d) < skip'
  BY <1>1, <1>3 DEF RepeatInv
<1>6. RepeatInv'
  BY <1>1, <1>2, <1>5 DEF RepeatInv, NoRepeatUnlessGrown
<1> QED
  BY <1>4, <1>6

\* The reader takes a deployment from the page.
LEMMA ReadStep ==
  ASSUME TypeOK, CoverInv, RepeatInv, NEW x \in page, Read(x)
  PROVE  CoverInv' /\ RepeatInv'
<1>1. /\ page' = page \ {x} /\ yielded' = Append(yielded, x)
      /\ listed' = listed /\ skip' = skip /\ ended' = ended /\ always' = always
      /\ shrunk' = shrunk /\ grown' = grown /\ erred' = erred
  BY DEF Read, Take
<1>2. x \in Deployment /\ x.id \in Deployments /\ yielded \in Seq(Deployment)
  BY DEF TypeOK, DsTypeOK, Deployment
<1>3. /\ DOMAIN yielded = 1..Len(yielded) /\ DOMAIN yielded' = 1..(Len(yielded) + 1)
      /\ Len(yielded) \in Nat
      /\ \A i \in 1..Len(yielded) : yielded'[i] = yielded[i]
      /\ yielded'[Len(yielded) + 1] = x
      /\ Ids' = Ids \cup {x.id}
  BY <1>1, <1>2, Yielded
<1>4. \A d : Rank(d)' = Rank(d)
  BY <1>1 DEF Rank
<1>5. OnPage' = OnPage \ {x.id} /\ x.id \in OnPage
  BY <1>1 DEF OnPage, RepeatInv
<1>6. CoverInv'
  <2>1. ASSUME ~shrunk, ~erred, NEW d \in always
        PROVE  d \in Ids' \/ d \in OnPage' \/ (~ended /\ skip <= Rank(d))
    <3>1. d \in Ids \/ d \in OnPage \/ (~ended /\ skip <= Rank(d))
      BY <2>1 DEF CoverInv
    <3> QED
      BY <1>3, <1>5, <3>1
  <2> QED
    BY <1>1, <1>4, <2>1 DEF CoverInv
<1>7. RepeatInv'
  <2>1. ASSUME ~grown
        PROVE  NoRepeatUnlessGrown'
    <3>1. x.id \notin Ids /\ \A i, j \in 1..Len(yielded) : yielded[i].id = yielded[j].id => i = j
      BY <1>3, <1>5, <2>1 DEF RepeatInv, NoRepeatUnlessGrown
    <3>2. \A i \in 1..Len(yielded) : yielded[i].id # x.id
      BY <1>3, <3>1 DEF Ids
    <3>3. \A i \in 1..(Len(yielded) + 1) : i \in 1..Len(yielded) \/ i = Len(yielded) + 1
      BY <1>3
    <3>4. \A i, j \in 1..(Len(yielded) + 1) : yielded'[i].id = yielded'[j].id => i = j
      BY <1>3, <3>1, <3>2, <3>3
    <3> QED
      BY <1>3, <3>4 DEF NoRepeatUnlessGrown
  <2>2. ASSUME ~grown
        PROVE  /\ \A d \in Ids' \cup OnPage' : d \in listed => Rank(d) < skip
               /\ Ids' \cap OnPage' = {}
    <3>1. /\ \A d \in Ids \cup OnPage : d \in listed => Rank(d) < skip
          /\ Ids \cap OnPage = {}
      BY <2>2 DEF RepeatInv
    <3> QED
      BY <1>3, <1>5, <3>1
  <2>3. /\ \A y, z \in page' : y.id = z.id => y = z
        /\ OnPage' \subseteq Deployments /\ Ids' \subseteq Deployments
    BY <1>1, <1>2, <1>3, <1>5 DEF RepeatInv
  <2> QED
    BY <1>1, <1>4, <2>1, <2>2, <2>3 DEF RepeatInv
<1> QED
  BY <1>6, <1>7

\* Deployments leave the list and join it.
LEMMA ResignalStep ==
  ASSUME TypeOK, CoverInv, RepeatInv, NEW new \in SUBSET Deployments, Resignal(new)
  PROVE  CoverInv' /\ RepeatInv'
<1>1. /\ ~ended /\ listed' = new /\ always' = always \cap new
      /\ skip' = skip /\ page' = page /\ ended' = ended /\ yielded' = yielded /\ erred' = erred
  BY DEF Resignal, Relist
<1>2. /\ ~shrunk' => ~shrunk /\ listed \subseteq new
      /\ ~grown' => ~grown /\ new \subseteq listed
  BY Zenon DEF Resignal
<1>3. Ids' = Ids /\ OnPage' = OnPage
  BY <1>1 DEF Ids, OnPage
<1>4. /\ listed \in SUBSET Deployments /\ listed' \in SUBSET Deployments /\ skip \in Nat
      /\ \A d : Rank(d) \in Nat
  BY <1>1, RankBounds DEF TypeOK, DsTypeOK
<1>5. \A d : Rank(d)' \in Nat
  <2>1. ASSUME NEW d
        PROVE  Rank(d)' \in Nat
    <3>1. IsFiniteSet({e \in listed' : e < d})
      BY <1>4, StreamAssumption, FS_Subset
    <3> QED
      BY <3>1, FS_CardinalityType DEF Rank
  <2> QED
    BY <2>1
<1>6. CoverInv'
  <2>1. ASSUME ~shrunk', ~erred, NEW d \in always'
        PROVE  d \in Ids \/ d \in OnPage \/ (~ended /\ skip <= Rank(d)')
    <3>1. d \in Ids \/ d \in OnPage \/ (~ended /\ skip <= Rank(d))
      BY <1>1, <1>2, <2>1 DEF CoverInv
    <3>2. Rank(d) <= Rank(d)'
      BY <1>1, <1>2, <1>4, <2>1, RankMonotonic
    <3> QED
      BY <1>4, <1>5, <3>1, <3>2
  <2> QED
    BY <1>1, <1>3, <2>1 DEF CoverInv
<1>7. RepeatInv'
  <2>1. ASSUME ~grown', NEW d \in Ids \cup OnPage, d \in listed'
        PROVE  Rank(d)' < skip
    <3>1. Rank(d) < skip
      BY <1>1, <1>2, <2>1 DEF RepeatInv
    <3>2. Rank(d)' <= Rank(d)
      BY <1>1, <1>2, <1>4, <2>1, RankMonotonic
    <3> QED
      BY <1>4, <1>5, <3>1, <3>2
  <2>2. ~grown' => Ids \cap OnPage = {} /\ NoRepeatUnlessGrown'
    BY <1>1, <1>2 DEF RepeatInv, NoRepeatUnlessGrown
  <2> QED
    BY <1>1, <1>3, <2>1, <2>2 DEF RepeatInv
<1> QED
  BY <1>6, <1>7

-----------------------------------------------------------------------------
(* The theorems *)

Inv == TypeOK /\ CoverInv /\ RepeatInv

\* Nothing is read at first.
LEMMA InvInit == Init => Inv
<1> SUFFICES ASSUME Init PROVE Inv
  OBVIOUS
<1>1. /\ listed \in SUBSET Deployments /\ skip = 0 /\ page = {} /\ yielded = <<>>
      /\ always = listed /\ changes = 0
  BY DEF Init
<1>2. TypeOK
  <2>1. /\ ended \in BOOLEAN /\ shrunk \in BOOLEAN /\ grown \in BOOLEAN /\ erred \in BOOLEAN
    BY Zenon DEF Init
  <2>2. indexed \in [Deployments -> BOOLEAN]
    BY DEF Init
  <2>3. /\ skip \in Nat /\ page \in SUBSET Deployment /\ yielded \in Seq(Deployment)
        /\ always \in SUBSET Deployments /\ changes \in 0..MaxChanges
    BY <1>1, StreamReaderAssumption
  <2> QED
    BY <1>1, <2>1, <2>2, <2>3, Zenon DEF TypeOK, DsTypeOK
<1>3. Ids = {} /\ OnPage = {}
  BY <1>1 DEF Ids, OnPage
<1>4. \A d : skip <= Rank(d)
  BY <1>1, RankBounds
<1>5. ~ended
  BY DEF Init
<1>6. CoverInv
  BY <1>1, <1>4, <1>5 DEF CoverInv
<1>7. RepeatInv
  BY <1>1, <1>3 DEF RepeatInv, NoRepeatUnlessGrown
<1> QED
  BY <1>2, <1>6, <1>7 DEF Inv

\* Every step keeps the invariant.
LEMMA InvStep ==
  ASSUME Inv, [Next]_vars
  PROVE  Inv'
<1>1. TypeOK /\ CoverInv /\ RepeatInv
  BY DEF Inv
<1>2. TypeOK'
  BY <1>1, TypeStep
<1>3. CoverInv' /\ RepeatInv'
  <2>1. CASE (\E denied \in [Deployments -> BOOLEAN] : IndexBlock(denied)) \/ UNCHANGED vars
    <3>1. /\ listed' = listed /\ skip' = skip /\ page' = page /\ ended' = ended
          /\ yielded' = yielded /\ always' = always
          /\ shrunk' = shrunk /\ grown' = grown /\ erred' = erred
      BY <2>1 DEF IndexBlock, Index, histVars, vars, dsVars
    <3>2. Ids' = Ids /\ OnPage' = OnPage /\ (\A d : Rank(d)' = Rank(d))
      BY <3>1 DEF Ids, OnPage, Rank
    <3> QED
      BY <1>1, <3>1, <3>2 DEF CoverInv, RepeatInv, NoRepeatUnlessGrown
  <2> QED
    BY <1>1, <2>1, FetchStep, FailStep, ReadStep, ResignalStep DEF Next
<1> QED
  BY <1>2, <1>3 DEF Inv

\* So the specification does.
LEMMA Invariance == Spec => []Inv
<1>1. Inv /\ [Next]_vars => Inv'
  BY InvStep
<1> QED
  BY InvInit, <1>1, PTL DEF Spec

\* The reader gets deployments.
THEOREM StreamTypeCorrect == Spec => []TypeOK
<1>1. Inv => TypeOK
  BY DEF Inv
<1> QED
  BY Invariance, <1>1, PTL

\* Whatever the size of a page, the pages miss nothing as long as no deployment leaves
\* the list.
THEOREM NothingMissedUnlessShrunk == Spec => []CoversUnlessShrunk
<1>1. Inv => CoversUnlessShrunk
  <2> SUFFICES ASSUME Inv, Complete, ~shrunk, NEW d \in always
               PROVE  d \in Ids
    BY DEF CoversUnlessShrunk
  <2>1. d \in Ids \/ d \in OnPage
    BY DEF Inv, CoverInv, Complete
  <2>2. OnPage = {}
    BY DEF Inv, CoverInv, Complete, OnPage
  <2> QED
    BY <2>1, <2>2
<1> QED
  BY Invariance, <1>1, PTL

\* They repeat nothing as long as none joins it.
THEOREM NothingRepeatedUnlessGrown == Spec => []NoRepeatUnlessGrown
<1>1. Inv => NoRepeatUnlessGrown
  BY DEF Inv, RepeatInv, NoRepeatUnlessGrown
<1> QED
  BY Invariance, <1>1, PTL

=============================================================================
