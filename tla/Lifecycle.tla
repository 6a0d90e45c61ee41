------------------------------- MODULE Lifecycle -------------------------------
(***************************************************************************)
(* The making and the unmaking of a profiler (drainprof_create_with_config *)
(* and drainprof_destroy of src/drainprof.c, with the create and destroy   *)
(* functions of the parts they call): blocks of memory are allocated one   *)
(* after the other, any of them may fail, and then what was allocated      *)
(* before must be given back.                                              *)
(***************************************************************************)
EXTENDS Integers, FiniteSets, Sequences

Config == [mode : {"production", "diagnostic"}, storage : {"slot_array", "hash_map"},
           on_pinning : BOOLEAN]

VARIABLES
    config,   \* the configuration the caller passes
    life,     \* "creating", then "failed" (a null pointer), or "running", "destroyed"
    blocks    \* the blocks that are allocated, a mutex counting as one

lifeVars == <<config, life, blocks>>

LifeInit == config \in Config /\ life = "creating" /\ blocks = {}

\* A report buffer is made for the diagnostic mode without a callback.
Buffered == config.mode = "diagnostic" /\ ~config.on_pinning

ArrayParts  == <<"array", "slots">>
BufferParts == <<"buffer", "reports", "lock">>

\* What is allocated, in order.  The hash map is not implemented.
Parts ==
    IF config.storage = "hash_map" THEN <<"prof", "hash_map">>
    ELSE <<"prof">> \o ArrayParts \o IF Buffered THEN BufferParts ELSE <<>>

NextPart == Parts[Cardinality(blocks) + 1]

\* Mutant: the slot array is forgotten when there is no memory for the buffer.
CleanupForgetful(p) ==
    CASE p \in {"prof"}              -> {}
      [] p \in {"array", "hash_map"} -> {"prof"}
      [] p = "slots"                 -> {"array", "prof"}
      [] p = "buffer"                -> {"prof"}
      [] p = "reports"               -> {"buffer", "prof"}
      [] p = "lock"                  -> {"reports", "buffer", "prof"}

\* What the error path frees when part p fails: its own function first, then the
\* ones that called it.
Cleanup(p) ==
    CASE p = "prof"                  -> {}
      [] p \in {"array", "hash_map"} -> {"prof"}
      [] p = "slots"                 -> {"array", "prof"}
      [] p = "buffer"                -> {"slots", "array", "prof"}
      [] p = "reports"               -> {"buffer", "slots", "array", "prof"}
      [] p = "lock"                  -> {"reports", "buffer", "slots", "array", "prof"}

CreatePart ==
    /\ life = "creating"
    /\ NextPart # "hash_map"
    /\ blocks' = blocks \cup {NextPart}
    /\ life' = IF Cardinality(blocks') = Len(Parts) THEN "running" ELSE "creating"
    /\ UNCHANGED config

CreateFail ==
    /\ life = "creating"
    /\ blocks' = blocks \ Cleanup(NextPart)
    /\ life' = "failed"
    /\ UNCHANGED config

\* drainprof_destroy: the storage, the report buffer if there is one, and the
\* profiler.
Destroy ==
    /\ life = "running"
    /\ blocks' = blocks \ ( {"slots", "array", "prof"}
                            \cup IF Buffered THEN {"lock", "reports", "buffer"} ELSE {} )
    /\ life' = "destroyed"
    /\ UNCHANGED config

\* No profiler, no memory: whichever allocation fails, and after a destroy.
BlocksFreed == life \in {"failed", "destroyed"} => blocks = {}
=============================================================================
