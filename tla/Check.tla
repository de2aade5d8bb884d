------------------------------- MODULE Check -------------------------------
(***************************************************************************)
(* What a run of availability-oracle/src/main.rs does about one            *)
(* deployment: it reads the supported networks, of which NetworkList is    *)
(* the client, and calls check(): the manifest, its schema, and then data  *)
(* source by data source its kind, its network and its files, each fetched *)
(* and parsed, up to the first that is wrong.                              *)
(*                                                                         *)
(* A file is what becomes of it: whether its link is a CID, what cat()     *)
(* returns for it, and whether the parser for it (YAML, GraphQL, ABI, or   *)
(* WASM without a forbidden import) takes what was returned.               *)
(***************************************************************************)
EXTENDS Naturals, Sequences, FiniteSets

CONSTANTS
  Kinds,              \* kinds of data sources
  SupportedKinds,     \* supported_data_source_kinds
  Networks,           \* what a data source may name
  Entries,            \* what the epoch block oracle subgraph may list
  PageSize,           \* networks per page query
  MaxSources,         \* bound: data sources and templates of a manifest
  MaxFiles,           \* bound: files that they link
  MaxChanges          \* bound: changes of the list while it is read

ASSUME CheckAssumption ==
  /\ SupportedKinds \subseteq Kinds
  /\ Entries \subseteq SUBSET Networks
  /\ "none" \notin Networks
  /\ PageSize \in Nat \ {0}
  /\ MaxSources \in Nat
  /\ MaxFiles \in Nat
  /\ MaxChanges \in Nat

VARIABLES
  \* of NetworkList
  listed, skip, supported,
  manifest,  \* the deployment that is checked
  pc,        \* what is checked next
  src,       \* the data source under check, counted on into the templates
  next,      \* its file that is fetched next
  network,   \* the network of the data sources so far, or "none"
  result,    \* Ok(()), CheckError::Invalid or CheckError::Other
  \* history
  checked,   \* the files of data sources found fine, as <<src, index>>
  ever,      \* the networks that were listed at some time of the reading
  always,    \* those that were all the time
  changes,   \* changes of the list so far
  shrunk     \* an entry left it

NL == INSTANCE NetworkList

nlVars   == <<listed, skip, supported>>
listHist == <<ever, always, changes, shrunk>>
vars     == <<nlVars, manifest, pc, src, next, network, result, checked, listHist>>

\* `unavailable' is GatewayTimeout, ClientTimeout or NotFound; `failing' is Other.
File == {"fine", "unparsable", "unavailable", "failing", "bad link"}

Verdicts == {"ok", "invalid", "other"}

FileLists == UNION {[1..n -> File] : n \in 0..MaxFiles}

\* The ABIs of a data source come before its mapping.
Source == [kind : Kinds, network : Networks \cup {"none"}, files : FileLists]

SourceLists == UNION {[1..n -> Source] : n \in 0..MaxSources}

\* The files that data sources link, as <<data source, index>>.
Linked(sources) ==
  UNION {{<<i, j>> : j \in DOMAIN sources[i].files} : i \in DOMAIN sources}

\* A manifest is fetched by the deployment's CID, not by a link; one that cannot be
\* had has no content.
Manifest ==
  [raw : {"fine"}, schema : File, sources : SourceLists]
  \cup [raw : File \ {"fine", "bad link"}, schema : {"fine"}, sources : {<<>>}]

NoManifest == [raw |-> "none", schema |-> "fine", sources |-> <<>>]

\* check_link, From<IpfsError> and From<Invalid>: what a file says of the deployment.
VerdictOf(file) ==
  CASE file = "fine"    -> "ok"
    [] file = "failing" -> "other"
    [] OTHER            -> "invalid"

-----------------------------------------------------------------------------

End(verdict) ==
  /\ pc' = "done"
  /\ result' = verdict
  /\ UNCHANGED <<manifest, src, next, network>>

\* A page of networks.
ReadNetworks ==
  /\ pc = "networks"
  /\ NL!ReadPage
  /\ UNCHANGED <<manifest, pc, src, next, network, result, checked, listHist>>

\* They are all read; the stream of deployments yields this one.
NetworksRead ==
  /\ pc = "networks"
  /\ NL!ReadEnds
  /\ pc' = "manifest"
  /\ manifest' \in {m \in Manifest : Cardinality(Linked(m.sources)) <= MaxFiles}
  /\ UNCHANGED <<src, next, network, result, checked, listHist>>

\* Mutant of NetworksFail: what was read is enough.
NetworksFailLate ==
  /\ pc = "networks"
  /\ pc' = "manifest"
  /\ manifest' \in {m \in Manifest : Cardinality(Linked(m.sources)) <= MaxFiles}
  /\ UNCHANGED <<nlVars, src, next, network, result, checked, listHist>>

\* A query fails, or its answer has no `networks': the run is aborted, and says as
\* little of its deployments as CheckError::Other does of one.
NetworksFail ==
  /\ pc = "networks"
  /\ End("other")
  /\ UNCHANGED <<nlVars, checked, listHist>>

\* The list changes while it is read.
NetworksChange ==
  /\ pc = "networks"
  /\ changes < MaxChanges
  /\ changes' = changes + 1
  /\ \/ \E entry \in Entries, i \in 1..(Len(listed) + 1) : NL!Join(i, entry) /\ UNCHANGED shrunk
     \/ \E i \in DOMAIN listed : NL!Leave(i) /\ shrunk' = TRUE
  /\ ever' = ever \cup NL!NamesIn(listed')
  /\ always' = always \cap NL!NamesIn(listed')
  /\ UNCHANGED <<manifest, pc, src, next, network, result, checked>>

\* The manifest is fetched and parsed.
CheckManifest ==
  /\ pc = "manifest"
  /\ IF manifest.raw = "fine"
     THEN pc' = "schema" /\ UNCHANGED <<manifest, src, next, network, result>>
     ELSE End(VerdictOf(manifest.raw))
  /\ UNCHANGED <<nlVars, checked, listHist>>

CheckSchema ==
  /\ pc = "schema"
  /\ IF manifest.schema = "fine"
     THEN /\ pc' = "source"
          /\ src' = 1
          /\ UNCHANGED <<manifest, next, network, result>>
     ELSE End(VerdictOf(manifest.schema))
  /\ UNCHANGED <<nlVars, checked, listHist>>

\* Mutant of Fits: every network is looked up, none is compared.
FitsAlone(s) ==
  /\ s.kind \in SupportedKinds
  /\ s.network \in supported \cup {"none"}

\* Mutant of Fits: the networks are left to a check behind the files.
FitsByKind(s) == s.kind \in SupportedKinds

\* The kind is supported; the first network that is named is supported and the
\* later ones are the same.
Fits(s) ==
  /\ s.kind \in SupportedKinds
  /\ \/ s.network = "none"
     \/ network = "none" /\ s.network \in supported
     \/ s.network = network

CheckSource ==
  /\ pc = "source"
  /\ src <= Len(manifest.sources)
  /\ LET s == manifest.sources[src]
     IN IF Fits(s)
        THEN /\ pc' = "files"
             /\ next' = 1
             /\ network' = IF network = "none" THEN s.network ELSE network
             /\ UNCHANGED <<manifest, src, result>>
        ELSE End("invalid")
  /\ UNCHANGED <<nlVars, checked, listHist>>

Files == manifest.sources[src].files

\* The next file of the data source is fetched and parsed.
CheckFile ==
  /\ pc = "files"
  /\ next <= Len(Files)
  /\ IF Files[next] = "fine"
     THEN /\ next' = next + 1
          /\ checked' = checked \cup {<<src, next>>}
          /\ UNCHANGED <<manifest, pc, src, network, result>>
     ELSE End(VerdictOf(Files[next])) /\ UNCHANGED checked
  /\ UNCHANGED <<nlVars, listHist>>

SourceFine ==
  /\ pc = "files"
  /\ next > Len(Files)
  /\ pc' = "source"
  /\ src' = src + 1
  /\ UNCHANGED <<nlVars, manifest, next, network, result, checked, listHist>>

\* "All validations have passed."
AllFine ==
  /\ pc = "source"
  /\ src > Len(manifest.sources)
  /\ End("ok")
  /\ UNCHANGED <<nlVars, checked, listHist>>

-----------------------------------------------------------------------------

Init ==
  /\ \E n \in 0..Cardinality(Entries) :
       listed \in {l \in [1..n -> Entries] : \A i, j \in 1..n : l[i] = l[j] => i = j}
  /\ skip = 0 /\ supported = {}
  /\ manifest = NoManifest
  /\ pc = "networks"
  /\ src = 1 /\ next = 1
  /\ network = "none"
  /\ result = "ok"
  /\ checked = {}
  /\ ever = NL!NamesIn(listed) /\ always = ever
  /\ changes = 0 /\ shrunk = FALSE

Next ==
  \/ ReadNetworks \/ NetworksRead \/ NetworksFail \/ NetworksChange
  \/ CheckManifest \/ CheckSchema \/ CheckSource \/ CheckFile \/ SourceFine \/ AllFine

Spec == Init /\ [][Next]_vars

-----------------------------------------------------------------------------
(* Properties *)

TypeOK ==
  /\ listed \in Seq(Entries) /\ skip \in Nat /\ supported \subseteq Networks
  /\ manifest \in Manifest \cup {NoManifest}
  /\ pc \in {"networks", "manifest", "schema", "source", "files", "done"}
  /\ src \in 1..(MaxSources + 1)
  /\ next \in 1..(MaxFiles + 1)
  /\ network \in Networks \cup {"none"}
  /\ result \in Verdicts
  /\ checked \subseteq (1..MaxSources) \X (1..MaxFiles)
  /\ always \subseteq ever /\ ever \subseteq Networks
  /\ changes \in 0..MaxChanges /\ shrunk \in BOOLEAN

\* The networks that the data sources name.
Named == {manifest.sources[i].network : i \in DOMAIN manifest.sources} \ {"none"}

\* A deployment passes only if everything about it is right, wherever in the
\* manifest it stands (main.rs:521-588): every file it links was fetched and
\* found fine, every kind is supported, and the data sources that name a
\* network all name the same one, which the subgraph listed, also when the first
\* of them comes late.
OkMeansSound ==
  pc = "done" /\ result = "ok" =>
    /\ manifest.raw = "fine" /\ manifest.schema = "fine"
    /\ checked = Linked(manifest.sources)
    /\ \A l \in checked : manifest.sources[l[1]].files[l[2]] = "fine"
    /\ \A i \in DOMAIN manifest.sources : manifest.sources[i].kind \in SupportedKinds
    /\ Cardinality(Named) <= 1 /\ Named \subseteq ever

\* What is wrong for good with a file that was asked for, and not only with its
\* download.
Defect(file) == file \in File \ {"fine", "failing"}

\* A deployment is denied only for a defect of its own (main.rs:481-485,
\* 466-479): never because a request failed in a way that says nothing of the
\* file, however many of its files could not be had; and not because its network
\* was read late or not at all, unless the list shrank while its pages were read
\* (epoch_block_oracle_subgraph.rs:58): an incomplete list denies no one.
InvalidHasDefect ==
  pc = "done" /\ result = "invalid" =>
    \/ Defect(manifest.raw) \/ Defect(manifest.schema)
    \/ \E l \in Linked(manifest.sources) : Defect(manifest.sources[l[1]].files[l[2]])
    \/ \E i \in DOMAIN manifest.sources : manifest.sources[i].kind \notin SupportedKinds
    \/ Cardinality(Named) > 1
    \/ ~(Named \subseteq always) \/ shrunk

\* What comes before a file in the order of the checks.
Before(l) == {k \in Linked(manifest.sources) : k[1] < l[1] \/ (k[1] = l[1] /\ k[2] < l[2])}

\* Those that the first n of them name.
NamedUpTo(n) == {manifest.sources[i].network : i \in 1..n} \ {"none"}

\* A check is inconclusive, and aborts the run for all deployments, only because
\* of a request that failed in a way that says nothing of the file, and only if
\* nothing that comes before it was wrong (main.rs:481-485, 521-588): neither the
\* files before it nor the kinds and the networks of the data sources up to its own,
\* which are looked at before their files (main.rs:546-568).  A deployment whose defect
\* is met first is denied whatever else about it cannot be had.
OtherIsFirstFailure ==
  pc = "done" /\ result = "other" =>
    \/ manifest = NoManifest
    \/ manifest.raw = "failing"
    \/ manifest.raw = "fine" /\ manifest.schema = "failing"
    \/ /\ manifest.raw = "fine" /\ manifest.schema = "fine"
       /\ \E l \in Linked(manifest.sources) :
            /\ manifest.sources[l[1]].files[l[2]] = "failing"
            /\ checked = Before(l)
            /\ \A k \in Before(l) : manifest.sources[k[1]].files[k[2]] = "fine"
            /\ \A i \in 1..l[1] : manifest.sources[i].kind \in SupportedKinds
            /\ Cardinality(NamedUpTo(l[1])) <= 1 /\ NamedUpTo(l[1]) \subseteq supported

\* The files that a manifest links beside those of its mappings: the package of
\* a substreams data source, at index 0 (test_files/substream.yaml).
Packages == {<<i, 0>> : i \in {j \in DOMAIN manifest.sources :
                                 manifest.sources[j].kind = "substreams"}}

\* "Check availability and validity for the manifest and all files linked from
\* it" (main.rs:487).
AllLinkedChecked ==
  pc = "done" /\ result = "ok" => Packages \cup Linked(manifest.sources) \subseteq checked

=============================================================================
