------------------------------ MODULE MCUsers ------------------------------
(* Scenes for three requests.                                               *)
EXTENDS Users

\* Guesses at reset codes while new codes and links are asked for.
Resets == [ops |-> 5, may |-> {"code", "reset"}, policy |-> TRUE, exists |-> TRUE, aborts |-> FALSE, time |-> FALSE, mails |-> FALSE]

\* Links, passwords and the administrator: rows locked in both orders.
Accounts == [Resets EXCEPT !.ops = 4, !.may = {"link", "consume", "code", "reset", "change", "update", "disable"}]

\* Registration while the policy changes and codes run out.
Registration == [Resets EXCEPT !.may = {"grant", "register", "policy"}, !.exists = FALSE]
Timed == [Registration EXCEPT !.ops = 3, !.time = TRUE, !.aborts = TRUE]

\* Two processes deliver two mails, which are queued at any time.
Mailing == [Resets EXCEPT !.ops = 2, !.may = {"link"}, !.mails = TRUE]

MCScenes == {Resets, Accounts, Registration, Timed, Mailing}
=============================================================================
