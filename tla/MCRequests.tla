------------------------------ MODULE MCRequests ------------------------------
(* An instance of Requests for TLC: one web client and one application, for *)
(* two users.                                                               *)
EXTENDS Requests, TLC

CONSTANTS s1, s2, web, app, u1, u2

MCSlots == {s1, s2}
MCClients == {web, app}
MCWebClients == {web}
MCUsers == {u1, u2}
Symmetry == Permutations(MCSlots) \union Permutations(MCUsers)

Nothing == [clients |-> MCClients, kinds |-> {}, flaws |-> {"none"}, ages |-> {1},
            sent |-> 0, copies |-> 0, faults |-> 0, expiry |-> FALSE, time |-> 0]

(* Prepared logins that arrive late, twice or spoilt, with a failing Redis. *)
Logins == [Nothing EXCEPT !.kinds = {"prepare", "login"}, !.ages = {0, 1},
           !.sent = 2, !.copies = 1, !.faults = 1, !.time = 3]

Spoilt == [Nothing EXCEPT !.kinds = {"prepare", "login"}, !.sent = 3,
           !.flaws = {"none", "header", "session", "signature", "cipher",
                      "csrf", "answer"}]

(* A session of the web client from the captcha to the logout, a refresh    *)
(* before it and one after it, with every overlap and a failing command.    *)
Sessions == [Nothing EXCEPT !.kinds = {"prepare", "login", "refresh", "logout"},
             !.clients = {web}, !.sent = 5, !.faults = 1]

(* Sessions of both.                                                        *)
Both == [Nothing EXCEPT !.kinds = {"prepare", "login", "refresh", "logout", "info"},
         !.sent = 4]

(* Requests of both with repeated messages, keys that expire and a failing  *)
(* command.                                                                 *)
Troubled == [Nothing EXCEPT !.kinds = {"prepare", "login", "refresh", "logout", "info"},
             !.sent = 3, !.copies = 1, !.faults = 1, !.expiry = TRUE]

MCBudgets == {Logins, Spoilt, Sessions, Both, Troubled}
=============================================================================
