---------------------------- MODULE MCOwnedItems ----------------------------
(***************************************************************************)
(* Two keys and two values: an item that is kept beside one that goes, or  *)
(* changes.  Batches of one operation, so that the second can fail.        *)
(***************************************************************************)
EXTENDS OwnedItems

AllKinds == {ConfigStore, Dictionary, NestedDictionary, WriteOnlyDictionary, KVStore,
             ComputeACL, CdnACL}
SetBlocks == {CdnACL}
=============================================================================
