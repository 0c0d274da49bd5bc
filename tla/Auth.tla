-------------------------------- MODULE Auth --------------------------------
(***************************************************************************)
(* Signing in and staying signed in: the refresh sessions and the password *)
(* resets of one user.  A reset touches no session and a session no token. *)
(***************************************************************************)
EXTENDS Sessions, PasswordReset

authVars == <<sessionVars, resetVars>>

Init == SessionInit /\ ResetInit
Next ==
    \/ SessionNext /\ UNCHANGED resetVars
    \/ ResetNext /\ UNCHANGED sessionVars

Spec == Init /\ [][Next]_authVars

IInv == SessionIInv /\ ResetIInv
=============================================================================
