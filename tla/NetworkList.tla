---------------------------- MODULE NetworkList ----------------------------
(***************************************************************************)
(* EpochBlockOracleSubgraphImpl::supported_networks of                     *)
(* availability-oracle/src/epoch_block_oracle_subgraph.rs, collected by    *)
(* reconcile_deny_list at the beginning of a run: pages of networks, each  *)
(* with its id and its alias, up to an empty page or the first error.  As  *)
(* with the deployments, nothing pins the pages to one block.              *)
(***************************************************************************)
EXTENDS Naturals, Sequences, SequencesExt

CONSTANTS
  Entries,   \* the networks, each a set of its id and its alias
  PageSize   \* `first' of the query: 1000 in the code

VARIABLES
  listed,     \* the subgraph's networks now, in the order of its answers
  skip,       \* the `skip' of the next page query
  supported   \* supported_networks so far: every id and every alias

nlVars == <<listed, skip, supported>>

NamesIn(entries) == UNION ToSet(entries)

\* The answer to the page query at `skip'.
Page == SubSeq(listed, skip + 1, Min({skip + PageSize, Len(listed)}))

-----------------------------------------------------------------------------

\* (0..).step_by(1000)
NextSkip == skip + PageSize

ReadPage ==
  /\ Page # <<>>
  /\ supported' = supported \cup NamesIn(Page)
  /\ skip' = NextSkip
  /\ UNCHANGED listed

ReadEnds == Page = <<>> /\ UNCHANGED nlVars

\* The subgraph indexes a block that adds a network or removes one.
Join(i, entry) ==
  /\ entry \notin ToSet(listed)
  /\ listed' = InsertAt(listed, i, entry)
  /\ UNCHANGED <<skip, supported>>

Leave(i) ==
  /\ listed' = RemoveAt(listed, i)
  /\ UNCHANGED <<skip, supported>>

=============================================================================
