-------------------------------- MODULE MCFiles ---------------------------------
(* A small instance of Files: two callers, writers and tasks, documents     *)
(* that the runtime and toml_edit read differently, two pins.               *)
EXTENDS Files, TLC

CONSTANTS one, two  \* callers, writers, tasks and files alike

Assignment(key, form, quote, body, tail) ==
    [key |-> key, form |-> form, quote |-> quote, body |-> body, tail |-> tail]

Alvr(form) == Assignment("protocol", form, "double", "alvr", "none")
Oxrsys(form) == Assignment("protocol", form, "double", "oxrsys", "none")
Bitrate(tail) == Assignment("bitrate", "bare", "none", "80", tail)

MCAccepted == [key \in {"protocol", "bitrate"} |->
                  IF key = "protocol" THEN {"alvr", "oxrsys"} ELSE {"80"}]

(* A key twice with a quote the runtime leaves on; junk after a number; a   *)
(* byte order mark and a multi-line string; a hidden line and a comment; a  *)
(* quoted key; a line that does not parse.                                  *)
MCDocs == {<<Oxrsys("bare"), Assignment("protocol", "bare", "single", "alvr", "none")>>,
           <<Bitrate("junk"), Alvr("bare")>>,
           <<Oxrsys("bom"), Alvr("hidden")>>,
           <<Oxrsys("bare"), Oxrsys("hidden"), Bitrate("comment")>>,
           <<Assignment("protocol", "quoted", "double", "alvr", "none")>>,
           <<Alvr("broken")>>}

MCTemplate == <<Alvr("bare"), Bitrate("none")>>

MCOffers == {{"setup"}, {"setup", "install"}, {"build"}, {"install"}}

Symmetry == Permutations({one, two})
=============================================================================
