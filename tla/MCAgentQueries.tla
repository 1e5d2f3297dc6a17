--------------------------- MODULE MCAgentQueries ---------------------------
(* Model values for AgentQueries that a .cfg cannot write: sequences. *)
EXTENDS AgentQueries

CONSTANTS id1, id2

(* One call, two calls, and an id used again in another response. *)
MCBatches == {<<id1>>, <<id1, id2>>}
=============================================================================
