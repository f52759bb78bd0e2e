---------------------------- MODULE MCAuthServer ----------------------------
(***************************************************************************)
(* What the manual says of the authentication server that the code does    *)
(* not do.                                                                 *)
(***************************************************************************)
EXTENDS AuthServer

\* "To fail the password strength check, submit a password with less than 4
\* characters or more than 255" (ReadMe.docx): a password that fails the check
\* gets no account.
BadPasswordsRejected ==
    \A r \in webAuth : r.password \notin BadPasswords
=============================================================================
