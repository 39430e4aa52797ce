--------------------------- MODULE MCVaultStream ---------------------------
(* An instance of VaultStream: a stream for one key, or for all keys.      *)
EXTENDS VaultStream

MCQueries == {{}, {"x"}}
MCDocument == <<"x", "y">>
=============================================================================
