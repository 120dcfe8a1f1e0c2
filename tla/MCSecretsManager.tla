-------------------------- MODULE MCSecretsManager --------------------------
(* SecretsManager for TLC: key pairs are interchangeable, and so are tokens *)
(* where every token may be used at every start.                            *)
EXTENDS SecretsManager, TLC

KeyPairSymmetry == Permutations(KeyPair)
FullSymmetry    == KeyPairSymmetry \cup Permutations(Token)

=============================================================================
