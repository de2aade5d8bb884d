---------------------------- MODULE CheckProofs ----------------------------
(***************************************************************************)
(* Theorems about Check, for any kinds and networks, any pages of the list *)
(* of networks, and manifests with any number of data sources and files.   *)
(***************************************************************************)
EXTENDS Check, SequenceTheorems, FiniteSetTheorems, TLAPS

-----------------------------------------------------------------------------
(* Pages of the list *)

\* The smaller of two numbers.
LEMMA MinOfTwo ==
  ASSUME NEW a \in Int, NEW b \in Int
  PROVE  NL!Min({a, b}) = IF a <= b THEN a ELSE b
<1>1. NL!Min({a, b}) = CHOOSE x \in {a, b} : \A y \in {a, b} : x <= y
  BY DEF NL!Min
<1> QED
  BY <1>1

\* The entries of a sequence.
LEMMA EntriesOf ==
  ASSUME NEW s \in Seq(Entries)
  PROVE  NL!ToSet(s) = {s[i] : i \in 1..Len(s)} /\ Len(s) \in Nat
BY LenProperties DEF NL!ToSet

\* A name is that of an entry.
LEMMA NamesOf ==
  ASSUME NEW s \in Seq(Entries), NEW n
  PROVE  n \in NL!NamesIn(s) <=> \E i \in 1..Len(s) : n \in s[i]
BY EntriesOf DEF NL!NamesIn

\* A page holds the entries after `skip', as many as there are up to its size; it is
\* empty only at the end of the list.
LEMMA PageHolds ==
  ASSUME listed \in Seq(Entries), skip \in Nat
  PROVE  /\ \A n \in NL!NamesIn(NL!Page) : \E i \in 1..Len(listed) : n \in listed[i]
         /\ \A i \in 1..Len(listed) : skip < i /\ i <= skip + PageSize =>
              listed[i] \subseteq NL!NamesIn(NL!Page)
         /\ NL!Page = <<>> => Len(listed) <= skip
<1> DEFINE last == NL!Min({skip + PageSize, Len(listed)})
<1>1. PageSize \in Nat /\ PageSize >= 1 /\ Len(listed) \in Nat
  BY CheckAssumption, LenProperties
<1>2. last = IF skip + PageSize <= Len(listed) THEN skip + PageSize ELSE Len(listed)
  BY <1>1, MinOfTwo
<1>3. last \in Nat /\ last <= Len(listed)
  BY <1>1, <1>2
<1>4. NL!Page = SubSeq(listed, skip + 1, last)
  BY DEF NL!Page
<1> HIDE DEF last
<1>5. \A i \in (skip + 1)..last : listed[i] \in Entries
  BY <1>1, <1>3, ElementOfSeq
<1>6. /\ NL!Page \in Seq(Entries)
      /\ Len(NL!Page) = IF skip + 1 <= last THEN last - skip ELSE 0
      /\ \A i \in 1..(last - skip) : NL!Page[i] = listed[skip + i]
  <2>1. /\ SubSeq(listed, skip + 1, last) \in Seq(Entries)
        /\ Len(SubSeq(listed, skip + 1, last))
             = IF skip + 1 <= last THEN last - (skip + 1) + 1 ELSE 0
        /\ \A i \in 1..(last - (skip + 1) + 1) :
             SubSeq(listed, skip + 1, last)[i] = listed[skip + 1 + i - 1]
    BY <1>3, <1>5, SubSeqProperties
  <2>2. last - (skip + 1) + 1 = last - skip /\ \A i \in Nat : skip + 1 + i - 1 = skip + i
    BY <1>3
  <2> QED
    BY <1>4, <2>1, <2>2
<1>7. ASSUME NEW n \in NL!NamesIn(NL!Page)
      PROVE  \E i \in 1..Len(listed) : n \in listed[i]
  <2>1. PICK i \in 1..Len(NL!Page) : n \in NL!Page[i]
    BY <1>6, NamesOf
  <2>2. skip + i \in 1..Len(listed) /\ NL!Page[i] = listed[skip + i]
    BY <1>1, <1>3, <1>6, <2>1
  <2> QED
    BY <2>1, <2>2
<1>8. ASSUME NEW i \in 1..Len(listed), skip < i, i <= skip + PageSize
      PROVE  listed[i] \subseteq NL!NamesIn(NL!Page)
  <2>1. i - skip \in 1..(last - skip) /\ i - skip \in 1..Len(NL!Page) /\ skip + (i - skip) = i
    BY <1>1, <1>2, <1>3, <1>6, <1>8
  <2>2. NL!Page[i - skip] = listed[i]
    BY <1>6, <2>1
  <2> QED
    BY <1>6, <2>1, <2>2, NamesOf
<1>9. NL!Page = <<>> => Len(listed) <= skip
  BY <1>1, <1>2, <1>6, EmptySeq
<1> QED
  BY <1>7, <1>8, <1>9

\* An entry that joins the list moves those behind it up.
LEMMA Joined ==
  ASSUME listed \in Seq(Entries), NEW entry \in Entries, NEW k \in 1..(Len(listed) + 1),
         listed' = NL!InsertAt(listed, k, entry)
  PROVE  /\ listed' \in Seq(Entries)
         /\ \A i \in 1..Len(listed) :
              \E j \in 1..Len(listed') : j >= i /\ listed'[j] = listed[i]
<1> DEFINE front == SubSeq(listed, 1, k - 1)
           back  == SubSeq(listed, k, Len(listed))
<1>1. Len(listed) \in Nat /\ \A i \in 1..Len(listed) : listed[i] \in Entries
  BY LenProperties, ElementOfSeq
<1>2. /\ front \in Seq(Entries) /\ Len(front) = k - 1
      /\ \A i \in 1..(k - 1) : front[i] = listed[i]
  <2>1. /\ front \in Seq(Entries)
        /\ Len(front) = IF 1 <= k - 1 THEN (k - 1) - 1 + 1 ELSE 0
        /\ \A i \in 1..((k - 1) - 1 + 1) : front[i] = listed[1 + i - 1]
    BY <1>1, SubSeqProperties
  <2>2. (k - 1) - 1 + 1 = k - 1 /\ \A i \in Nat : 1 + i - 1 = i
    BY <1>1
  <2> HIDE DEF front
  <2> QED
    BY <1>1, <2>1, <2>2
<1>3. /\ back \in Seq(Entries) /\ Len(back) = Len(listed) - k + 1
      /\ \A i \in 1..(Len(listed) - k + 1) : back[i] = listed[k + i - 1]
  BY <1>1, SubSeqProperties
<1>4. <<entry>> \in Seq(Entries) /\ Len(<<entry>>) = 1 /\ <<entry>>[1] = entry
  OBVIOUS
<1>5. listed' = front \o <<entry>> \o back
  BY DEF NL!InsertAt
<1> HIDE DEF front, back
<1> DEFINE begin == front \o <<entry>>
<1>6. /\ begin \in Seq(Entries) /\ Len(begin) = k
      /\ \A i \in 1..(k - 1) : begin[i] = front[i]
  BY <1>1, <1>2, <1>4, ConcatProperties
<1>7. listed' = begin \o back
  BY <1>5
<1> HIDE DEF begin
<1>8. /\ listed' \in Seq(Entries) /\ Len(listed') = Len(listed) + 1
      /\ \A i \in 1..(Len(listed) + 1) :
           listed'[i] = IF i <= k THEN begin[i] ELSE back[i - k]
  <2>1. Len(begin) + Len(back) = Len(listed) + 1
    BY <1>1, <1>3, <1>6
  <2> QED
    BY <1>3, <1>6, <1>7, <2>1, ConcatProperties
<1>9. ASSUME NEW i \in 1..Len(listed)
      PROVE  \E j \in 1..Len(listed') : j >= i /\ listed'[j] = listed[i]
  <2>1. CASE i < k
    <3>1. i \in 1..(k - 1) /\ i \in 1..(Len(listed) + 1) /\ i <= k /\ i \in 1..Len(listed')
      BY <1>1, <1>8, <2>1
    <3>2. listed'[i] = listed[i]
      BY <1>2, <1>6, <1>8, <3>1
    <3> QED
      BY <3>1, <3>2
  <2>2. CASE i >= k
    <3>1. /\ i + 1 \in 1..(Len(listed) + 1) /\ ~(i + 1 <= k) /\ i + 1 \in 1..Len(listed')
          /\ i + 1 - k \in 1..(Len(listed) - k + 1) /\ k + (i + 1 - k) - 1 = i /\ i + 1 >= i
      BY <1>1, <1>8, <2>2
    <3>2. listed'[i + 1] = back[i + 1 - k] /\ back[i + 1 - k] = listed[i]
      BY <1>3, <1>8, <3>1
    <3> QED
      BY <3>1, <3>2
  <2> QED
    BY <1>1, <2>1, <2>2
<1> QED
  BY <1>8, <1>9

\* A list that an entry leaves is one still.
LEMMA Left ==
  ASSUME listed \in Seq(Entries), NEW k \in DOMAIN listed, listed' = NL!RemoveAt(listed, k)
  PROVE  listed' \in Seq(Entries)
<1>1. Len(listed) \in Nat /\ k \in 1..Len(listed) /\ \A i \in 1..Len(listed) : listed[i] \in Entries
  BY LenProperties, ElementOfSeq
<1>2. SubSeq(listed, 1, k - 1) \in Seq(Entries) /\ SubSeq(listed, k + 1, Len(listed)) \in Seq(Entries)
  BY <1>1, SubSeqProperties
<1>3. listed' = SubSeq(listed, 1, k - 1) \o SubSeq(listed, k + 1, Len(listed))
  BY DEF NL!RemoveAt
<1> QED
  BY <1>2, <1>3, ConcatProperties

-----------------------------------------------------------------------------
(* The list *)

\* The types of the list and of its history.
ListTypes ==
  /\ listed \in Seq(Entries) /\ skip \in Nat /\ supported \subseteq Networks
  /\ always \subseteq ever /\ ever \subseteq Networks
  /\ changes \in 0..MaxChanges /\ shrunk \in BOOLEAN

\* What was read was listed at some time, and as long as no entry left, what was listed
\* all the time was read or is yet to be.
ListInv ==
  /\ NL!NamesIn(listed) \subseteq ever /\ supported \subseteq ever
  /\ pc = "networks" /\ ~shrunk =>
       \A n \in always \ supported :
         \E i \in 1..Len(listed) : skip < i /\ n \in listed[i]
  /\ pc \in {"manifest", "schema", "source", "files"} /\ ~shrunk => always \subseteq supported

\* Names of entries are networks.
LEMMA NamesAreNetworks ==
  ASSUME NEW s \in Seq(Entries)
  PROVE  NL!NamesIn(s) \subseteq Networks
<1>1. ASSUME NEW n \in NL!NamesIn(s)
      PROVE  n \in Networks
  <2>1. PICK i \in 1..Len(s) : n \in s[i]
    BY NamesOf
  <2>2. s[i] \in Entries
    BY ElementOfSeq
  <2> QED
    BY <2>1, <2>2, CheckAssumption
<1> QED
  BY <1>1

\* A page more is read.
LEMMA ReadStep ==
  ASSUME ListTypes, ListInv, ReadNetworks
  PROVE  ListTypes' /\ ListInv'
<1>1. /\ pc = "networks" /\ pc' = "networks"
      /\ supported' = supported \cup NL!NamesIn(NL!Page) /\ skip' = skip + PageSize
      /\ UNCHANGED <<listed, ever, always, changes, shrunk>>
  BY DEF ReadNetworks, NL!ReadPage, NL!NextSkip, listHist
<1>2. NL!NamesIn(NL!Page) \subseteq NL!NamesIn(listed)
  <2>1. \A n \in NL!NamesIn(NL!Page) : \E i \in 1..Len(listed) : n \in listed[i]
    BY PageHolds DEF ListTypes
  <2> QED
    BY <2>1, NamesOf DEF ListTypes
<1>3. supported' \subseteq ever
  BY <1>1, <1>2 DEF ListInv
<1>4. ListTypes'
  <2>1. supported' \subseteq Networks /\ skip' \in Nat
    BY <1>1, <1>3, CheckAssumption DEF ListTypes
  <2> QED
    BY <1>1, <2>1, Zenon DEF ListTypes
<1>5. ASSUME ~shrunk, NEW n \in always, n \notin supported'
      PROVE  \E i \in 1..Len(listed) : skip' < i /\ n \in listed[i]
  <2>1. PICK i \in 1..Len(listed) : skip < i /\ n \in listed[i]
    BY <1>1, <1>5 DEF ListInv
  <2>2. ~(i <= skip + PageSize)
    BY <1>1, <1>5, <2>1, PageHolds DEF ListTypes
  <2>3. skip' < i
    BY <1>1, <2>2, LenProperties, CheckAssumption DEF ListTypes
  <2> QED
    BY <2>1, <2>3
<1> QED
  BY <1>1, <1>3, <1>4, <1>5 DEF ListInv

\* After an empty page there is nothing that is yet to be read.
LEMMA ReadEndsStep ==
  ASSUME ListTypes, ListInv, NetworksRead
  PROVE  ListTypes' /\ ListInv'
<1>1. /\ pc = "networks" /\ pc' = "manifest" /\ NL!Page = <<>>
      /\ UNCHANGED <<listed, skip, supported, ever, always, changes, shrunk>>
  BY DEF NetworksRead, NL!ReadEnds, NL!nlVars, listHist
<1>2. ~shrunk => always \subseteq supported
  <2>1. Len(listed) <= skip /\ Len(listed) \in Nat /\ skip \in Nat
    BY <1>1, PageHolds, LenProperties DEF ListTypes
  <2>2. \A i \in 1..Len(listed) : ~(skip < i)
    BY <2>1
  <2> QED
    BY <1>1, <2>2 DEF ListInv
<1>3. ListTypes'
  BY <1>1, Zenon DEF ListTypes
<1> QED
  BY <1>1, <1>2, <1>3 DEF ListInv

\* An entry joins the list, and moves nothing to where it was read already; or one
\* leaves it.
LEMMA ChangeStep ==
  ASSUME ListTypes, ListInv, NetworksChange
  PROVE  ListTypes' /\ ListInv'
<1>1. /\ pc = "networks" /\ pc' = "networks"
      /\ changes < MaxChanges /\ changes' = changes + 1
      /\ ever' = ever \cup NL!NamesIn(listed')
      /\ always' = always \cap NL!NamesIn(listed')
  BY DEF NetworksChange
<1>2. UNCHANGED <<skip, supported>>
  BY DEF NetworksChange, NL!Join, NL!Leave
<1>3. \/ /\ \E entry \in Entries, k \in 1..(Len(listed) + 1) :
              listed' = NL!InsertAt(listed, k, entry)
         /\ shrunk' = shrunk
      \/ /\ \E k \in DOMAIN listed : listed' = NL!RemoveAt(listed, k)
         /\ shrunk' = TRUE
  BY Zenon DEF NetworksChange, NL!Join, NL!Leave
<1>4. listed' \in Seq(Entries)
  BY <1>3, Joined, Left DEF ListTypes
<1>5. ListTypes'
  <2>1. ever' \subseteq Networks /\ always' \subseteq ever' /\ changes' \in 0..MaxChanges
    BY <1>1, <1>4, NamesAreNetworks, CheckAssumption DEF ListTypes
  <2>2. shrunk' \in BOOLEAN
    <3>1. shrunk' = shrunk \/ shrunk' = TRUE
      BY <1>3, Zenon
    <3> QED
      BY <3>1, Zenon DEF ListTypes
  <2>3. skip' \in Nat /\ supported' \subseteq Networks
    BY <1>2 DEF ListTypes
  <2> QED
    BY <1>4, <2>1, <2>2, <2>3, Zenon DEF ListTypes
<1>6. ASSUME ~shrunk', NEW n \in always', n \notin supported'
      PROVE  \E j \in 1..Len(listed') : skip' < j /\ n \in listed'[j]
  <2>0. /\ shrunk' = shrunk
        /\ \E entry \in Entries, k \in 1..(Len(listed) + 1) :
              listed' = NL!InsertAt(listed, k, entry)
    <3>1. shrunk' # TRUE
      BY <1>6
    <3> QED
      BY <1>3, <3>1, Zenon
  <2>1. ~shrunk
    BY <1>6, <2>0
  <2>2. PICK i \in 1..Len(listed) : skip < i /\ n \in listed[i]
    BY <1>1, <1>2, <1>6, <2>1 DEF ListInv
  <2>3. PICK j \in 1..Len(listed') : j >= i /\ listed'[j] = listed[i]
    BY <2>0, Joined DEF ListTypes
  <2>4. skip < j
    BY <1>4, <2>2, <2>3, LenProperties DEF ListTypes
  <2> QED
    BY <1>2, <2>2, <2>3, <2>4
<1>7. NL!NamesIn(listed') \subseteq ever' /\ supported' \subseteq ever'
  BY <1>1, <1>2 DEF ListInv
<1> QED
  BY <1>1, <1>5, <1>6, <1>7 DEF ListInv

\* The rest of a run reads no networks.
LEMMA ListKept ==
  ASSUME ListTypes, ListInv,
         UNCHANGED <<listed, skip, supported, ever, always, changes, shrunk>>,
         pc' \in {pc, "done"} \/ {pc, pc'} \subseteq {"manifest", "schema", "source", "files"}
  PROVE  ListTypes' /\ ListInv'
<1>1. /\ listed' = listed /\ skip' = skip /\ supported' = supported
      /\ ever' = ever /\ always' = always /\ shrunk' = shrunk /\ changes' = changes
  OBVIOUS
<1>2. ListTypes'
  BY <1>1, Zenon DEF ListTypes
<1>3. NL!NamesIn(listed') \subseteq ever' /\ supported' \subseteq ever'
  BY <1>1, Zenon DEF ListInv
<1>4. pc' = "networks" => pc = "networks"
  OBVIOUS
<1>5. pc' \in {"manifest", "schema", "source", "files"}
        => pc \in {"manifest", "schema", "source", "files"}
  OBVIOUS
<1>6. pc' = "networks" /\ ~shrunk' =>
        \A n \in always' \ supported' :
          \E i \in 1..Len(listed') : skip' < i /\ n \in listed'[i]
  BY <1>1, <1>4 DEF ListInv
<1>7. pc' \in {"manifest", "schema", "source", "files"} /\ ~shrunk' => always' \subseteq supported'
  BY <1>1, <1>5 DEF ListInv
<1> QED
  BY <1>2, <1>3, <1>6, <1>7 DEF ListInv

-----------------------------------------------------------------------------
(* The manifest *)

sources == manifest.sources

\* A manifest has data sources, and each of them files, that can be counted.
LEMMA ManifestTyped ==
  ASSUME manifest \in Manifest \cup {NoManifest}
  PROVE  /\ manifest \in Manifest => manifest.raw \in File
         /\ manifest.schema \in File
         /\ sources \in Seq(Source) /\ Len(sources) \in 0..MaxSources
         /\ DOMAIN sources = 1..Len(sources)
         /\ \A i \in 1..Len(sources) :
              /\ sources[i] \in Source
              /\ sources[i].files \in Seq(File) /\ Len(sources[i].files) \in 0..MaxFiles
              /\ DOMAIN sources[i].files = 1..Len(sources[i].files)
<1>1. /\ manifest \in Manifest => manifest.raw \in File
      /\ manifest.schema \in File
  <2>1. CASE manifest \in Manifest
    BY <2>1 DEF Manifest, File
  <2>2. CASE manifest = NoManifest
    <3>1. manifest.schema = "fine" /\ manifest.raw = "none"
      BY <2>2 DEF NoManifest
    <3>2. manifest \notin Manifest
      BY <3>1 DEF Manifest, File
    <3> QED
      BY <3>1, <3>2 DEF File
  <2> QED
    BY <2>1, <2>2
<1>2. sources \in SourceLists
  <2>1. <<>> \in [1..0 -> Source] /\ 0 \in 0..MaxSources
    BY CheckAssumption
  <2>2. <<>> \in SourceLists
    BY <2>1 DEF SourceLists
  <2>3. CASE manifest \in Manifest
    BY <2>2, <2>3 DEF Manifest, sources
  <2>4. CASE manifest = NoManifest
    <3>1. sources = <<>>
      BY <2>4 DEF NoManifest, sources
    <3> QED
      BY <2>2, <3>1
  <2> QED
    BY <2>3, <2>4
<1>3. PICK n \in 0..MaxSources : sources \in [1..n -> Source]
  BY <1>2 DEF SourceLists
<1>4. n \in Nat /\ DOMAIN sources = 1..n
  BY <1>3, CheckAssumption
<1>5. sources \in Seq(Source)
  BY <1>3, <1>4, SeqDef
<1>6. Len(sources) = n
  BY <1>4, <1>5
<1>7. ASSUME NEW i \in 1..Len(sources)
      PROVE  /\ sources[i] \in Source
             /\ sources[i].files \in Seq(File) /\ Len(sources[i].files) \in 0..MaxFiles
             /\ DOMAIN sources[i].files = 1..Len(sources[i].files)
  <2>1. sources[i] \in Source
    BY <1>3, <1>6
  <2>2. sources[i].files \in FileLists
    BY <2>1 DEF Source
  <2> DEFINE fs == sources[i].files
  <2>3. PICK m \in 0..MaxFiles : fs \in [1..m -> File]
    BY <2>2 DEF FileLists
  <2>4. m \in Nat /\ DOMAIN fs = 1..m
    BY <2>3, CheckAssumption
  <2>5. fs \in Seq(File)
    BY <2>3, <2>4, SeqDef
  <2>6. Len(fs) = m
    <3> HIDE DEF fs
    <3> QED
      BY <2>4, <2>5
  <2> QED
    BY <2>1, <2>3, <2>4, <2>5, <2>6
<1> QED
  BY <1>1, <1>3, <1>4, <1>5, <1>6, <1>7

\* The data source at this place has been found to fit.
Passed(i) == i < src \/ (pc = "files" /\ i = src)

\* The file at this place has been fetched and parsed.
Fetched(i, j) == i < src \/ (pc = "files" /\ i = src /\ j < next)

\* Where the check is in the manifest, and what it found on the way there.
SourceTypes ==
  /\ manifest \in Manifest \cup {NoManifest}
  /\ pc \in {"networks", "manifest", "schema", "source", "files", "done"}
  /\ src \in 1..(MaxSources + 1) /\ next \in 1..(MaxFiles + 1)
  /\ network \in Networks \cup {"none"} /\ result \in Verdicts
  /\ checked \subseteq (1..MaxSources) \X (1..MaxFiles)

SourceInv ==
  /\ pc \in {"networks", "manifest", "schema"} =>
       src = 1 /\ next = 1 /\ network = "none" /\ checked = {}
  /\ pc \in {"manifest", "schema"} => manifest \in Manifest
  /\ pc = "schema" => manifest.raw = "fine"
  /\ pc \in {"source", "files"} =>
       /\ manifest.raw = "fine" /\ manifest.schema = "fine"
       /\ src <= Len(sources) + 1
       /\ pc = "files" => src <= Len(sources) /\ next <= Len(Files) + 1
       /\ \A i \in 1..Len(sources) : Passed(i) =>
            sources[i].kind \in SupportedKinds /\ sources[i].network \in {"none", network}
       /\ network # "none" => network \in supported
       /\ network # "none" => \E i \in 1..Len(sources) : sources[i].network = network
       /\ checked = {l \in Linked(sources) : Fetched(l[1], l[2])}
       /\ \A l \in checked : sources[l[1]].files[l[2]] = "fine"

\* What is linked stands somewhere in the manifest.
LEMMA LinkedAt ==
  ASSUME manifest \in Manifest \cup {NoManifest}
  PROVE  /\ \A l \in Linked(sources) :
              /\ l = <<l[1], l[2]>>
              /\ l[1] \in 1..Len(sources) /\ l[2] \in 1..Len(sources[l[1]].files)
         /\ \A i \in 1..Len(sources) : \A j \in 1..Len(sources[i].files) :
              <<i, j>> \in Linked(sources)
<1>1. /\ DOMAIN sources = 1..Len(sources)
      /\ \A i \in 1..Len(sources) : DOMAIN sources[i].files = 1..Len(sources[i].files)
  BY ManifestTyped
<1>2. \A l : l \in Linked(sources) <=>
        \E i \in 1..Len(sources) : \E j \in 1..Len(sources[i].files) : l = <<i, j>>
  BY <1>1 DEF Linked
<1>3. ASSUME NEW l \in Linked(sources)
      PROVE  /\ l = <<l[1], l[2]>>
             /\ l[1] \in 1..Len(sources) /\ l[2] \in 1..Len(sources[l[1]].files)
  <2>1. PICK i \in 1..Len(sources) : \E j \in 1..Len(sources[i].files) : l = <<i, j>>
    BY <1>2
  <2>2. PICK j \in 1..Len(sources[i].files) : l = <<i, j>>
    BY <2>1
  <2> QED
    BY <2>2
<1> QED
  BY <1>2, <1>3

\* The networks that are named can be counted.
LEMMA NamedFinite ==
  ASSUME manifest \in Manifest \cup {NoManifest}
  PROVE  IsFiniteSet(Named) /\ Cardinality(Named) \in Nat
<1> DEFINE f == [i \in 1..Len(sources) |-> sources[i].network]
           T == {sources[i].network : i \in 1..Len(sources)}
<1>1. f \in Surjection(1..Len(sources), T)
  BY DEF Surjection
<1>2. IsFiniteSet(1..Len(sources))
  BY ManifestTyped, FS_Interval
<1>3. IsFiniteSet(T)
  BY <1>1, <1>2, FS_Surjection
<1>4. Named \subseteq T
  BY ManifestTyped DEF Named, sources
<1>5. IsFiniteSet(Named)
  <2> HIDE DEF T
  <2> QED
    BY <1>3, <1>4, FS_Subset
<1> QED
  BY <1>5, FS_CardinalityType

-----------------------------------------------------------------------------
(* The steps through the manifest *)

\* A file that is not fine does not let a deployment pass, and one that only failed to
\* arrive does not deny it.
LEMMA VerdictOfFile ==
  ASSUME NEW file \in File, file # "fine"
  PROVE  /\ VerdictOf(file) \in Verdicts /\ VerdictOf(file) # "ok"
         /\ VerdictOf(file) = "invalid" => Defect(file)
BY DEF File, VerdictOf, Verdicts, Defect

\* What ends a check.
LEMMA Ends ==
  ASSUME SourceTypes, NEW verdict \in Verdicts, End(verdict)
  PROVE  /\ pc' = "done" /\ result' = verdict
         /\ UNCHANGED <<manifest, src, next, network>>
         /\ (UNCHANGED checked => SourceTypes') /\ SourceInv'
BY DEF End, SourceTypes, SourceInv

\* The manifest is there, after all the networks.
LEMMA ManifestComes ==
  ASSUME SourceTypes, SourceInv,
         \/ ReadNetworks \/ NetworksRead \/ NetworksChange
         \/ (CheckManifest \/ CheckSchema) /\ pc' # "done"
  PROVE  SourceTypes' /\ SourceInv'
<1>1. CASE NetworksRead
  <2>1. /\ pc = "networks" /\ pc' = "manifest" /\ manifest' \in Manifest
        /\ UNCHANGED <<src, next, network, result, checked>>
    BY <1>1 DEF NetworksRead
  <2> QED
    BY <2>1 DEF SourceTypes, SourceInv
<1>2. CASE ReadNetworks \/ NetworksChange
  <2>1. pc = "networks" /\ UNCHANGED <<manifest, pc, src, next, network, result, checked>>
    BY <1>2 DEF ReadNetworks, NetworksChange
  <2> QED
    BY <2>1 DEF SourceTypes, SourceInv
<1>3. CASE CheckManifest /\ pc' # "done"
  <2>1. /\ pc = "manifest" /\ manifest.raw = "fine" /\ pc' = "schema"
        /\ UNCHANGED <<manifest, src, next, network, result, checked>>
    BY <1>3 DEF CheckManifest, End
  <2> QED
    BY <2>1 DEF SourceTypes, SourceInv
<1>4. CASE CheckSchema /\ pc' # "done"
  <2>1. /\ pc = "schema" /\ manifest.schema = "fine" /\ pc' = "source" /\ src' = 1
        /\ UNCHANGED <<manifest, next, network, result, checked>>
    BY <1>4 DEF CheckSchema, End
  <2>2. SourceTypes'
    BY <2>1, CheckAssumption DEF SourceTypes
  <2>3. /\ manifest.raw = "fine" /\ network = "none" /\ checked = {} /\ src = 1
    BY <2>1 DEF SourceInv
  <2>4. Len(sources) \in Nat /\ sources' = sources
    BY <2>1, ManifestTyped DEF SourceTypes, sources
  <2>5. \A i \in 1..Len(sources) : ~Passed(i)'
    BY <2>1, <2>4 DEF Passed
  <2>6. \A l \in Linked(sources) : ~(Fetched(l[1], l[2])')
    BY <2>1, <2>4, LinkedAt DEF Fetched, SourceTypes
  <2>7. {l \in Linked(sources) : Fetched(l[1], l[2])'} = {}
    BY <2>6
  <2> QED
    BY <2>1, <2>2, <2>3, <2>4, <2>5, <2>7 DEF SourceInv
<1> QED
  BY <1>1, <1>2, <1>3, <1>4

\* A data source fits: what those before it had in common, it has.
LEMMA SourceFits ==
  ASSUME SourceTypes, SourceInv, CheckSource, Fits(sources[src]), UNCHANGED supported
  PROVE  SourceTypes' /\ SourceInv'
<1> DEFINE s == sources[src]
<1>1. /\ pc = "source" /\ src <= Len(sources) /\ pc' = "files" /\ next' = 1
      /\ network' = IF network = "none" THEN s.network ELSE network
      /\ UNCHANGED <<manifest, src, result, checked, supported>>
  BY DEF CheckSource, sources
<1>2. src \in 1..Len(sources) /\ s \in Source /\ Len(sources) \in 0..MaxSources
  BY <1>1, ManifestTyped DEF SourceTypes
<1>3. s.network \in Networks \cup {"none"} /\ s.kind \in SupportedKinds
  BY <1>2 DEF Source, Fits
<1>4. SourceTypes'
  BY <1>1, <1>3, CheckAssumption DEF SourceTypes
<1>5. sources' = sources /\ Files' = s.files /\ Len(s.files) \in Nat
  BY <1>1, <1>2, ManifestTyped DEF sources, Files, SourceTypes
<1>6. s.network \in {"none", network'} /\ (network # "none" => network' = network)
  BY <1>1 DEF Fits
<1>7. ASSUME NEW i \in 1..Len(sources), Passed(i)'
      PROVE  sources[i].kind \in SupportedKinds /\ sources[i].network \in {"none", network'}
  <2>1. CASE i = src
    BY <1>3, <1>6, <2>1
  <2>2. CASE i # src
    <3>1. Passed(i)
      BY <1>1, <1>7, <2>2 DEF Passed
    <3> QED
      BY <1>1, <1>6, <3>1 DEF SourceInv
  <2> QED
    BY <2>1, <2>2
<1>8. network' # "none" =>
        network' \in supported /\ \E i \in 1..Len(sources) : sources[i].network = network'
  <2>1. CASE network = "none"
    BY <1>1, <1>2, <2>1 DEF Fits
  <2>2. CASE network # "none"
    BY <1>1, <2>2 DEF SourceInv
  <2> QED
    BY <2>1, <2>2
<1>9. checked = {l \in Linked(sources) : Fetched(l[1], l[2])'}
  <2>1. \A l \in Linked(sources) : Fetched(l[1], l[2])' <=> Fetched(l[1], l[2])
    BY <1>1, <1>2, LinkedAt DEF Fetched, SourceTypes
  <2>2. checked = {l \in Linked(sources) : Fetched(l[1], l[2])}
    BY <1>1 DEF SourceInv
  <2> QED
    BY <2>1, <2>2
<1>10. /\ manifest.raw = "fine" /\ manifest.schema = "fine"
       /\ \A l \in checked : sources[l[1]].files[l[2]] = "fine"
  BY <1>1 DEF SourceInv
<1> HIDE DEF s
<1> QED
  BY <1>1, <1>2, <1>4, <1>5, <1>7, <1>8, <1>9, <1>10 DEF SourceInv

\* A file is fine.
LEMMA FileFine ==
  ASSUME SourceTypes, SourceInv, CheckFile, Files[next] = "fine", UNCHANGED supported
  PROVE  SourceTypes' /\ SourceInv'
<1>1. /\ pc = "files" /\ next <= Len(Files) /\ next' = next + 1
      /\ checked' = checked \cup {<<src, next>>}
      /\ UNCHANGED <<manifest, pc, src, network, result, supported>>
  BY DEF CheckFile
<1>2. /\ src \in 1..Len(sources) /\ Len(sources) \in 0..MaxSources
      /\ Files = sources[src].files /\ Len(Files) \in 0..MaxFiles /\ next \in 1..Len(Files)
  BY <1>1, ManifestTyped DEF SourceTypes, SourceInv, Files, sources
<1>3. SourceTypes'
  <2>1. src \in 1..MaxSources /\ next \in 1..MaxFiles /\ next' \in 1..(MaxFiles + 1)
    BY <1>1, <1>2, CheckAssumption
  <2> QED
    BY <1>1, <2>1 DEF SourceTypes
<1>4. sources' = sources /\ Files' = Files
  BY <1>1 DEF sources, Files
<1>5. checked' = {l \in Linked(sources) : Fetched(l[1], l[2])'}
  <2>1. checked = {l \in Linked(sources) : Fetched(l[1], l[2])}
    BY <1>1 DEF SourceInv
  <2>2. <<src, next>> \in Linked(sources)
    BY <1>2, LinkedAt DEF SourceTypes
  <2>3. \A l \in Linked(sources) :
          Fetched(l[1], l[2])' <=> Fetched(l[1], l[2]) \/ l = <<src, next>>
    BY <1>1, <1>2, LinkedAt DEF Fetched, SourceTypes
  <2> QED
    BY <1>1, <2>1, <2>2, <2>3
<1>6. \A l \in checked' : sources[l[1]].files[l[2]] = "fine"
  BY <1>1, <1>2 DEF SourceInv
<1>7. \A i \in 1..Len(sources) : Passed(i)' <=> Passed(i)
  BY <1>1 DEF Passed
<1> QED
  BY <1>1, <1>2, <1>3, <1>4, <1>5, <1>6, <1>7 DEF SourceInv

\* All the files of a data source are.
LEMMA SourceDone ==
  ASSUME SourceTypes, SourceInv, SourceFine
  PROVE  SourceTypes' /\ SourceInv'
<1>1. /\ pc = "files" /\ next > Len(Files) /\ pc' = "source" /\ src' = src + 1
      /\ UNCHANGED <<manifest, next, network, result, checked, supported>>
  BY DEF SourceFine, nlVars
<1>2. /\ src \in 1..Len(sources) /\ Len(sources) \in 0..MaxSources
      /\ Files = sources[src].files /\ Len(Files) \in 0..MaxFiles /\ next \in Nat
  BY <1>1, ManifestTyped DEF SourceTypes, SourceInv, Files, sources
<1>3. SourceTypes'
  <2>1. src' \in 1..(MaxSources + 1)
    BY <1>1, <1>2, CheckAssumption
  <2> QED
    BY <1>1, <2>1 DEF SourceTypes
<1>4. sources' = sources
  BY <1>1 DEF sources
<1>5. checked = {l \in Linked(sources) : Fetched(l[1], l[2])'}
  <2>1. checked = {l \in Linked(sources) : Fetched(l[1], l[2])}
    BY <1>1 DEF SourceInv
  <2>2. \A l \in Linked(sources) : Fetched(l[1], l[2])' <=> Fetched(l[1], l[2])
    BY <1>1, <1>2, LinkedAt DEF Fetched, SourceTypes
  <2> QED
    BY <2>1, <2>2
<1>6. \A i \in 1..Len(sources) : Passed(i)' <=> Passed(i)
  BY <1>1, <1>2 DEF Passed
<1> QED
  BY <1>1, <1>2, <1>3, <1>4, <1>5, <1>6 DEF SourceInv

-----------------------------------------------------------------------------
(* The verdicts *)

Verdict == OkMeansSound /\ InvalidHasDefect

\* Something failed to arrive: that is no verdict.
LEMMA NoVerdict ==
  ASSUME pc' # "done" \/ result' = "other"
  PROVE  Verdict'
BY DEF Verdict, OkMeansSound, InvalidHasDefect

\* The manifest, the schema or a file is not what it should be.
LEMMA FileDenies ==
  ASSUME SourceTypes, NEW file \in File, file # "fine", result' = VerdictOf(file),
         UNCHANGED manifest,
         \/ file \in {manifest.raw, manifest.schema}
         \/ \E l \in Linked(sources) : file = sources[l[1]].files[l[2]]
  PROVE  Verdict'
<1>1. result' # "ok" /\ (result' = "invalid" => Defect(file))
  BY VerdictOfFile
<1>2. Defect(file) =>
        \/ Defect(manifest.raw) \/ Defect(manifest.schema)
        \/ \E l \in Linked(manifest.sources) : Defect(manifest.sources[l[1]].files[l[2]])
  BY DEF sources
<1>3. OkMeansSound'
  BY <1>1 DEF OkMeansSound
<1>4. InvalidHasDefect'
  BY <1>1, <1>2 DEF InvalidHasDefect
<1> QED
  BY <1>3, <1>4 DEF Verdict

\* A data source does not fit: its kind, or its network, is wrong.
LEMMA SourceDenies ==
  ASSUME SourceTypes, SourceInv, ListInv, pc = "source", src <= Len(sources),
         ~Fits(sources[src]), result' = "invalid", UNCHANGED <<manifest, always, shrunk>>
  PROVE  Verdict'
<1> DEFINE s == sources[src]
<1>1. /\ src \in 1..Len(sources) /\ s \in Source /\ DOMAIN sources = 1..Len(sources)
  BY ManifestTyped DEF SourceTypes
<1>2. CASE s.kind \notin SupportedKinds
  <2>1. \E i \in DOMAIN manifest.sources : manifest.sources[i].kind \notin SupportedKinds
    BY <1>1, <1>2 DEF sources
  <2> QED
    BY <2>1 DEF Verdict, OkMeansSound, InvalidHasDefect
<1>3. CASE s.kind \in SupportedKinds /\ network = "none"
  <2>1. s.network # "none" /\ s.network \notin supported
    BY <1>3 DEF Fits
  <2>2. s.network \in Named
    BY <1>1, <2>1 DEF Named, sources
  <2>3. s.network \notin always \/ shrunk
    BY <2>1 DEF ListInv
  <2>4. ~(Named \subseteq always) \/ shrunk
    BY <2>2, <2>3
  <2>5. Named' = Named
    BY DEF Named
  <2>6. (~(Named \subseteq always) \/ shrunk)'
    BY <2>4, <2>5
  <2> QED
    BY <2>6 DEF Verdict, OkMeansSound, InvalidHasDefect
<1>4. CASE s.kind \in SupportedKinds /\ network # "none"
  <2>1. s.network # "none" /\ s.network # network
    BY <1>4 DEF Fits
  <2>2. s.network \in Named /\ network \in Named
    BY <1>1, <1>4, <2>1 DEF Named, sources, SourceInv
  <2>3. Cardinality({s.network, network}) = 2
    <3>1. {s.network, network} = {s.network} \cup {network}
      OBVIOUS
    <3>2. IsFiniteSet({s.network}) /\ Cardinality({s.network}) = 1 /\ network \notin {s.network}
      BY <2>1, FS_Singleton
    <3>3. Cardinality({s.network} \cup {network}) = 1 + 1
      BY <3>2, FS_AddElement
    <3> QED
      BY <3>1, <3>3
  <2>4. Cardinality(Named) > 1
    <3>1. {s.network, network} \subseteq Named
      BY <2>2
    <3>2. IsFiniteSet(Named) /\ Cardinality(Named) \in Nat
      BY NamedFinite DEF SourceTypes
    <3>3. 2 <= Cardinality(Named)
      BY <2>3, <3>1, <3>2, FS_Subset
    <3> QED
      BY <3>2, <3>3
  <2>5. (Cardinality(Named) > 1)'
    BY <2>4 DEF Named
  <2> QED
    BY <2>5 DEF Verdict, OkMeansSound, InvalidHasDefect
<1> QED
  BY <1>2, <1>3, <1>4

\* All passed: what holds of those that were checked holds of all.
LEMMA AllPass ==
  ASSUME SourceTypes, SourceInv, ListInv, pc = "source", src > Len(sources), result' = "ok",
         UNCHANGED <<manifest, checked, ever>>
  PROVE  Verdict'
<1>1. /\ src = Len(sources) + 1 /\ DOMAIN sources = 1..Len(sources) /\ Len(sources) \in Nat
  BY ManifestTyped DEF SourceTypes, SourceInv
<1>2. \A i \in 1..Len(sources) : Passed(i)
  BY <1>1 DEF Passed
<1>3. checked = Linked(sources)
  <2>1. \A l \in Linked(sources) : Fetched(l[1], l[2])
    BY <1>1, LinkedAt DEF Fetched, SourceTypes
  <2> QED
    BY <2>1 DEF SourceInv
<1>4. Named \subseteq {network} /\ Named \subseteq ever
  <2>1. \A n \in Named : n = network /\ n # "none"
    BY <1>1, <1>2 DEF Named, sources, SourceInv
  <2>2. network # "none" => network \in ever
    BY DEF SourceInv, ListInv
  <2> QED
    BY <2>1, <2>2
<1>5. Cardinality(Named) <= 1
  <2>1. IsFiniteSet({network}) /\ Cardinality({network}) = 1
    BY FS_Singleton
  <2> QED
    BY <1>4, <2>1, FS_Subset
<1>6. /\ manifest.raw = "fine" /\ manifest.schema = "fine"
      /\ checked = Linked(manifest.sources)
      /\ \A l \in checked : manifest.sources[l[1]].files[l[2]] = "fine"
      /\ \A i \in DOMAIN manifest.sources : manifest.sources[i].kind \in SupportedKinds
  BY <1>1, <1>2, <1>3 DEF SourceInv, sources
<1>7. Named' = Named
  BY DEF Named
<1>8. OkMeansSound'
  BY <1>4, <1>5, <1>6, <1>7 DEF OkMeansSound
<1>9. InvalidHasDefect'
  BY DEF InvalidHasDefect
<1> QED
  BY <1>8, <1>9 DEF Verdict

-----------------------------------------------------------------------------
(* The theorems *)

Inv == ListTypes /\ ListInv /\ SourceTypes /\ SourceInv /\ Verdict

\* Nothing is read or checked at first.
LEMMA InvInit == Init => Inv
<1> SUFFICES ASSUME Init PROVE Inv
  OBVIOUS
<1>1. listed \in Seq(Entries)
  <2>1. PICK n \in 0..Cardinality(Entries) : listed \in [1..n -> Entries]
    BY DEF Init
  <2>2. n \in Nat
    OBVIOUS
  <2> QED
    BY <2>1, <2>2, SeqDef
<1>2. ListTypes
  <2>1. ever \subseteq Networks /\ always = ever /\ skip = 0 /\ supported = {}
    BY <1>1, NamesAreNetworks DEF Init
  <2>2. changes \in 0..MaxChanges
    BY CheckAssumption DEF Init
  <2>3. shrunk \in BOOLEAN
    BY Zenon DEF Init
  <2>4. skip \in Nat /\ supported \subseteq Networks /\ always \subseteq ever
    BY <2>1
  <2> QED
    BY <1>1, <2>1, <2>2, <2>3, <2>4, Zenon DEF ListTypes
<1>3. ListInv
  <2>1. /\ pc = "networks" /\ skip = 0 /\ supported = {}
        /\ ever = NL!NamesIn(listed) /\ always = ever
    BY DEF Init
  <2>2. \A n \in always : \E i \in 1..Len(listed) : skip < i /\ n \in listed[i]
    BY <1>1, <2>1, NamesOf, LenProperties
  <2> QED
    BY <2>1, <2>2 DEF ListInv
<1>4. SourceTypes
  <2>1. manifest \in Manifest \cup {NoManifest}
    BY DEF Init
  <2>2. /\ pc = "networks" /\ src = 1 /\ next = 1 /\ network = "none" /\ result = "ok"
        /\ checked = {}
    BY DEF Init
  <2> QED
    BY <2>1, <2>2, CheckAssumption DEF SourceTypes, Verdicts
<1>5. SourceInv /\ Verdict
  BY DEF Init, SourceInv, Verdict, OkMeansSound, InvalidHasDefect
<1> QED
  BY <1>2, <1>3, <1>4, <1>5 DEF Inv

\* Every step keeps the invariant.
LEMMA InvStep ==
  ASSUME Inv, [Next]_vars
  PROVE  Inv'
<1>1. ListTypes /\ ListInv /\ SourceTypes /\ SourceInv /\ Verdict
  BY DEF Inv
<1>2. CASE ReadNetworks \/ NetworksRead \/ NetworksChange
  <2>1. pc' # "done"
    BY <1>2 DEF ReadNetworks, NetworksRead, NetworksChange
  <2>2. ListTypes' /\ ListInv'
    BY <1>1, <1>2, ReadStep, ReadEndsStep, ChangeStep
  <2>3. SourceTypes' /\ SourceInv'
    BY <1>1, <1>2, ManifestComes
  <2>4. Verdict'
    BY <2>1, NoVerdict
  <2> QED
    BY <2>2, <2>3, <2>4 DEF Inv
<1>3. CASE NetworksFail
  <2>1. /\ End("other") /\ UNCHANGED <<listed, skip, supported, checked, ever, always, changes, shrunk>>
    BY <1>3 DEF NetworksFail, nlVars, listHist
  <2>2. "other" \in Verdicts
    BY DEF Verdicts
  <2>3. pc' = "done" /\ result' = "other" /\ SourceTypes' /\ SourceInv'
    BY <1>1, <2>1, <2>2, Ends
  <2>4. ListTypes' /\ ListInv'
    BY <1>1, <2>1, <2>3, ListKept
  <2> QED
    BY <2>3, <2>4, NoVerdict DEF Inv
<1>4. CASE CheckManifest \/ CheckSchema
  <2>1. /\ pc \in {"manifest", "schema"}
        /\ UNCHANGED <<listed, skip, supported, checked, ever, always, changes, shrunk>>
    BY <1>4 DEF CheckManifest, CheckSchema, nlVars, listHist
  <2>2. CASE pc' # "done"
    <3>1. pc' \in {"schema", "source"}
      BY <1>4, <2>2 DEF CheckManifest, CheckSchema, End
    <3>2. ListTypes' /\ ListInv'
      BY <1>1, <2>1, <3>1, ListKept
    <3>3. SourceTypes' /\ SourceInv'
      BY <1>1, <1>4, <2>2, ManifestComes
    <3> QED
      BY <2>2, <3>2, <3>3, NoVerdict DEF Inv
  <2>3. CASE pc' = "done"
    <3>1. PICK file \in {manifest.raw, manifest.schema} : file # "fine" /\ End(VerdictOf(file))
      BY <1>4, <2>3 DEF CheckManifest, CheckSchema
    <3>2. file \in File
      BY <1>1, <2>1, <3>1, ManifestTyped DEF SourceTypes, SourceInv
    <3>3. VerdictOf(file) \in Verdicts
      BY <3>1, <3>2, VerdictOfFile
    <3>4. /\ result' = VerdictOf(file) /\ UNCHANGED manifest /\ SourceTypes' /\ SourceInv'
      BY <1>1, <2>1, <3>1, <3>3, Ends
    <3>5. Verdict'
      BY <1>1, <3>1, <3>2, <3>4, FileDenies
    <3>6. ListTypes' /\ ListInv'
      BY <1>1, <2>1, <2>3, ListKept
    <3> QED
      BY <3>4, <3>5, <3>6 DEF Inv
  <2> QED
    BY <2>2, <2>3
<1>5. CASE CheckSource
  <2>1. /\ pc = "source" /\ src <= Len(sources) /\ pc' \in {"files", "done"}
        /\ UNCHANGED <<listed, skip, supported, checked, ever, always, changes, shrunk>>
    BY <1>5 DEF CheckSource, End, nlVars, listHist, sources
  <2>2. ListTypes' /\ ListInv'
    BY <1>1, <2>1, ListKept
  <2>3. CASE Fits(sources[src])
    <3>1. SourceTypes' /\ SourceInv'
      BY <1>1, <1>5, <2>1, <2>3, SourceFits
    <3>2. pc' # "done"
      BY <1>5, <2>3 DEF CheckSource, sources
    <3> QED
      BY <2>2, <3>1, <3>2, NoVerdict DEF Inv
  <2>4. CASE ~Fits(sources[src])
    <3>1. End("invalid") /\ "invalid" \in Verdicts
      BY <1>5, <2>4 DEF CheckSource, sources, Verdicts
    <3>2. result' = "invalid" /\ UNCHANGED manifest /\ SourceTypes' /\ SourceInv'
      BY <1>1, <2>1, <3>1, Ends
    <3>3. Verdict'
      BY <1>1, <2>1, <2>4, <3>2, SourceDenies
    <3> QED
      BY <2>2, <3>2, <3>3 DEF Inv
  <2> QED
    BY <2>3, <2>4
<1>6. CASE CheckFile
  <2>1. /\ pc = "files" /\ next <= Len(Files) /\ pc' \in {"files", "done"}
        /\ UNCHANGED <<listed, skip, supported, ever, always, changes, shrunk>>
    BY <1>6 DEF CheckFile, End, nlVars, listHist
  <2>2. ListTypes' /\ ListInv'
    BY <1>1, <2>1, ListKept
  <2>3. CASE Files[next] = "fine"
    <3>1. SourceTypes' /\ SourceInv'
      BY <1>1, <1>6, <2>1, <2>3, FileFine
    <3>2. pc' # "done"
      BY <1>6, <2>3 DEF CheckFile
    <3> QED
      BY <2>2, <3>1, <3>2, NoVerdict DEF Inv
  <2>4. CASE Files[next] # "fine"
    <3>1. /\ src \in 1..Len(sources) /\ Files = sources[src].files
          /\ next \in 1..Len(sources[src].files) /\ Files[next] \in File
      BY <1>1, <2>1, ManifestTyped, ElementOfSeq DEF SourceTypes, SourceInv, Files, sources
    <3>2. End(VerdictOf(Files[next])) /\ UNCHANGED checked
      BY <1>6, <2>4 DEF CheckFile
    <3>3. VerdictOf(Files[next]) \in Verdicts
      BY <2>4, <3>1, VerdictOfFile
    <3>4. /\ result' = VerdictOf(Files[next]) /\ UNCHANGED manifest /\ SourceTypes' /\ SourceInv'
      BY <1>1, <3>2, <3>3, Ends
    <3>5. <<src, next>> \in Linked(sources)
      BY <1>1, <3>1, LinkedAt DEF SourceTypes
    <3>6. \E l \in Linked(sources) : Files[next] = sources[l[1]].files[l[2]]
      BY <3>1, <3>5
    <3>7. Verdict'
      BY <1>1, <2>4, <3>1, <3>4, <3>6, FileDenies
    <3> QED
      BY <2>2, <3>4, <3>7 DEF Inv
  <2> QED
    BY <2>3, <2>4
<1>7. CASE SourceFine
  <2>1. /\ pc = "files" /\ pc' = "source"
        /\ UNCHANGED <<listed, skip, supported, ever, always, changes, shrunk>>
    BY <1>7 DEF SourceFine, nlVars, listHist
  <2>2. ListTypes' /\ ListInv'
    BY <1>1, <2>1, ListKept
  <2> QED
    BY <1>1, <1>7, <2>1, <2>2, SourceDone, NoVerdict DEF Inv
<1>8. CASE AllFine
  <2>1. /\ pc = "source" /\ src > Len(sources) /\ End("ok") /\ "ok" \in Verdicts
        /\ UNCHANGED <<listed, skip, supported, checked, ever, always, changes, shrunk>>
    BY <1>8 DEF AllFine, nlVars, listHist, sources, Verdicts
  <2>2. /\ pc' = "done" /\ result' = "ok" /\ UNCHANGED manifest /\ SourceTypes' /\ SourceInv'
    BY <1>1, <2>1, Ends
  <2>3. ListTypes' /\ ListInv'
    BY <1>1, <2>1, <2>2, ListKept
  <2>4. Verdict'
    BY <1>1, <2>1, <2>2, AllPass
  <2> QED
    BY <2>2, <2>3, <2>4 DEF Inv
<1>9. CASE UNCHANGED vars
  <2>1. UNCHANGED <<listed, skip, supported, manifest, pc, src, next, network, result, checked,
                    ever, always, changes, shrunk>>
    BY <1>9 DEF vars, nlVars, listHist
  <2>2. ListTypes' /\ ListInv'
    BY <1>1, <2>1, ListKept
  <2>3. SourceTypes' /\ SourceInv'
    BY <1>1, <2>1 DEF SourceTypes, SourceInv, Passed, Fetched, Files, sources
  <2>4. Verdict'
    BY <1>1, <2>1 DEF Verdict, OkMeansSound, InvalidHasDefect, Named
  <2> QED
    BY <2>2, <2>3, <2>4 DEF Inv
<1> QED
  BY <1>2, <1>3, <1>4, <1>5, <1>6, <1>7, <1>8, <1>9 DEF Next

\* So the specification does.
LEMMA Invariance == Spec => []Inv
<1>1. Inv /\ [Next]_vars => Inv'
  BY InvStep
<1> QED
  BY InvInit, <1>1, PTL DEF Spec

\* A check stays within its manifest, and knows no networks that were never listed.
THEOREM CheckTypeCorrect == Spec => []TypeOK
<1>1. Inv => TypeOK
  BY Zenon DEF Inv, ListTypes, SourceTypes, TypeOK
<1> QED
  BY Invariance, <1>1, PTL

\* Whatever the manifest and however the list of networks changes while it is read, a
\* deployment that passes has nothing wrong with it.
THEOREM PassedIsSound == Spec => []OkMeansSound
<1>1. Inv => OkMeansSound
  BY DEF Inv, Verdict
<1> QED
  BY Invariance, <1>1, PTL

\* One that is denied has a defect, unless the list of networks shrank while it was
\* read.
THEOREM DeniedHasDefect == Spec => []InvalidHasDefect
<1>1. Inv => InvalidHasDefect
  BY DEF Inv, Verdict
<1> QED
  BY Invariance, <1>1, PTL

-----------------------------------------------------------------------------
(* The checks that come to no verdict *)

\* While the networks are read no manifest has been asked for.
NotAsked == pc = "networks" => manifest = NoManifest

\* Only a file that failed to arrive is an Other.
LEMMA OtherOfFile ==
  ASSUME NEW file, VerdictOf(file) = "other"
  PROVE  file = "failing"
BY DEF VerdictOf

\* The file at hand fails: those before it in the order of the checks are the ones
\* that were found fine.
LEMMA FileFails ==
  ASSUME SourceTypes, SourceInv, CheckFile, Files[next] = "failing"
  PROVE  OtherIsFirstFailure'
<1>1. /\ pc = "files" /\ next <= Len(Files)
      /\ UNCHANGED <<manifest, checked, supported>>
  BY DEF CheckFile, End, nlVars
<1>2. /\ src \in 1..Len(sources) /\ Files = sources[src].files
      /\ next \in 1..Len(sources[src].files) /\ Len(sources) \in Nat
  BY <1>1, ManifestTyped DEF SourceTypes, SourceInv, Files, sources
<1>3. <<src, next>> \in Linked(sources)
  BY <1>2, LinkedAt DEF SourceTypes
<1>4. \A l \in Linked(sources) :
        Fetched(l[1], l[2]) <=> l[1] < src \/ (l[1] = src /\ l[2] < next)
  BY <1>1 DEF Fetched
<1>5. checked = Before(<<src, next>>)
  BY <1>1, <1>4 DEF SourceInv, Before, sources
<1>6. \A i \in 1..src :
        sources[i].kind \in SupportedKinds /\ sources[i].network \in {"none", network}
  BY <1>1, <1>2 DEF SourceInv, Passed
<1>7. Cardinality(NamedUpTo(src)) <= 1 /\ NamedUpTo(src) \subseteq supported
  <2>1. NamedUpTo(src) \subseteq {network} /\ NamedUpTo(src) \subseteq supported
    <3>1. \A n \in NamedUpTo(src) : n = network /\ n # "none"
      BY <1>6 DEF NamedUpTo, sources
    <3>2. network # "none" => network \in supported
      BY <1>1 DEF SourceInv
    <3> QED
      BY <3>1, <3>2
  <2>2. IsFiniteSet({network}) /\ Cardinality({network}) = 1
    BY FS_Singleton
  <2> QED
    BY <2>1, <2>2, FS_Subset
<1>8. /\ manifest.raw = "fine" /\ manifest.schema = "fine"
      /\ \A k \in checked : sources[k[1]].files[k[2]] = "fine"
  BY <1>1 DEF SourceInv
<1>9. PICK l : /\ l \in Linked(sources)
               /\ sources[l[1]].files[l[2]] = "failing"
               /\ checked = Before(l)
               /\ \A k \in Before(l) : sources[k[1]].files[k[2]] = "fine"
               /\ \A i \in 1..l[1] : sources[i].kind \in SupportedKinds
               /\ Cardinality(NamedUpTo(l[1])) <= 1 /\ NamedUpTo(l[1]) \subseteq supported
  <2>1. sources[src].files[next] = "failing"
    BY <1>2
  <2> QED
    BY <1>3, <1>5, <1>6, <1>7, <1>8, <2>1
<1>10. /\ Before(l)' = Before(l) /\ Linked(manifest.sources)' = Linked(sources)
       /\ sources = manifest.sources /\ NamedUpTo(l[1])' = NamedUpTo(l[1])
  BY <1>1 DEF Before, Linked, NamedUpTo, sources
<1> QED
  BY <1>1, <1>8, <1>9, <1>10 DEF OtherIsFirstFailure

\* A check that comes to no verdict met what failed before anything that is wrong: a
\* file, a kind or a network.
THEOREM InconclusiveIsFirstFailure == Spec => []OtherIsFirstFailure
<1>1. Init => NotAsked /\ OtherIsFirstFailure
  BY DEF Init, NotAsked, OtherIsFirstFailure
<1>2. Inv /\ NotAsked /\ OtherIsFirstFailure /\ [Next]_vars
        => (NotAsked /\ OtherIsFirstFailure)'
  <2> SUFFICES ASSUME Inv, NotAsked, OtherIsFirstFailure, [Next]_vars
               PROVE  NotAsked' /\ OtherIsFirstFailure'
    OBVIOUS
  <2>1. SourceTypes /\ SourceInv
    BY DEF Inv
  <2>2. NotAsked'
    BY DEF NotAsked, Next, vars, nlVars, ReadNetworks, NetworksRead, NetworksFail, NetworksChange,
           CheckManifest, CheckSchema, CheckSource, CheckFile, SourceFine, AllFine, End
  <2>3. CASE pc' # "done" \/ result' # "other"
    BY <2>2, <2>3 DEF OtherIsFirstFailure
  <2>4. CASE NetworksFail
    BY <2>2, <2>4 DEF NetworksFail, End, NotAsked, OtherIsFirstFailure
  <2>5. CASE pc' = "done" /\ result' = "other" /\ (CheckManifest \/ CheckSchema)
    <3>1. \/ CheckManifest /\ manifest.raw # "fine" /\ VerdictOf(manifest.raw) = "other"
          \/ CheckSchema /\ manifest.schema # "fine" /\ VerdictOf(manifest.schema) = "other"
      BY <2>5 DEF CheckManifest, CheckSchema, End
    <3>2. manifest' = manifest
      BY <2>5 DEF CheckManifest, CheckSchema, End
    <3>3. \/ manifest.raw = "failing"
          \/ pc = "schema" /\ manifest.schema = "failing"
      BY <3>1, OtherOfFile DEF CheckSchema
    <3>4. pc = "schema" => manifest.raw = "fine"
      BY <2>1 DEF SourceInv
    <3> QED
      BY <2>2, <3>2, <3>3, <3>4 DEF OtherIsFirstFailure
  <2>6. CASE pc' = "done" /\ result' = "other" /\ CheckFile
    <3>1. VerdictOf(Files[next]) = "other"
      BY <2>6 DEF CheckFile, End
    <3> QED
      BY <2>1, <2>2, <2>6, <3>1, OtherOfFile, FileFails
  <2>7. CASE UNCHANGED vars
    <3>1. /\ pc' = pc /\ result' = result /\ manifest' = manifest
          /\ checked' = checked /\ supported' = supported
      BY <2>7 DEF vars, nlVars
    <3>2. \A l : NamedUpTo(l[1])' = NamedUpTo(l[1])
      BY <3>1 DEF NamedUpTo
    <3>3. \A l : Before(l)' = Before(l)
      BY <3>1 DEF Before
    <3> QED
      BY <2>2, <3>1, <3>2, <3>3 DEF OtherIsFirstFailure
  <2>8. \/ pc' # "done" \/ result' # "other" \/ NetworksFail
        \/ CheckManifest \/ CheckSchema \/ CheckFile \/ UNCHANGED vars
    BY DEF Next, ReadNetworks, NetworksRead, NetworksChange, CheckSource, SourceFine, AllFine, End
  <2> QED
    BY <2>3, <2>4, <2>5, <2>6, <2>7, <2>8
<1> QED
  BY Invariance, <1>1, <1>2, PTL DEF Spec

=============================================================================
