------------------------- MODULE MCCompletionOutbox -------------------------
(* Instances of CompletionOutbox for TLC: the sets are model values given in  *)
(* the configuration files; here are the symmetries and the disturbances.     *)
EXTENDS CompletionOutbox, TLC

Symmetry == Permutations(Endpoints) \cup Permutations(Users)

CrashesOnly == {"crash", "storeError", "lostReply"}
=============================================================================
