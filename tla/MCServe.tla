------------------------------ MODULE MCServe ------------------------------
(* Values for the constants of ServeQueue. *)
EXTENDS ServeQueue, TLC

CONSTANTS a, b, c, s1, s2

MCSessionOf == a :> s1 @@ b :> s1 @@ c :> s2
=============================================================================
