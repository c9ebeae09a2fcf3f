----------------------------- MODULE MCPopServer -----------------------------
(* Small instances of PopServer: two users, two connections and the ways of *)
(* using the spool that doc/reference.md describes.                         *)
EXTENDS PopServer, TLC

CONSTANTS alice, bob, s1, s2, m1

Users    == {alice, bob}
Sessions == {s1, s2}
OneMessage == {m1}

\* only APOP and CRAM before STLS
Strict == [byName |-> TRUE, delete |-> TRUE, copies |-> "envelope", keep |-> FALSE, tls |-> TRUE,
           apart |-> FALSE, insecure |-> {"CRAM", "APOP"}, secure |-> Mechanism]
\* the simplest login
Plain == [Strict EXCEPT !.tls = FALSE, !.insecure = {"PLAIN"}, !.secure = {"PLAIN"}]
Apart == [Plain EXCEPT !.apart = TRUE]

\* "copy:pop"; "copy:nodelete" or "deliver:nodelete"; POP on the spool itself
Ways == {Plain, Apart, [Plain EXCEPT !.copies = "both", !.keep = TRUE],
         [Plain EXCEPT !.byName = FALSE, !.copies = "none"], [Plain EXCEPT !.delete = FALSE]}
Everything == Ways \cup {Strict}
=============================================================================
