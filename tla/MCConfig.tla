------------------------------ MODULE MCConfig ------------------------------
(***************************************************************************)
(* A small instance of Config: rules by program, by user and without match *)
(* fields, and seven that cannot be used, each for a reason of its own.    *)
(***************************************************************************)
EXTENDS Config, Integers, TLC

MCFacts ==
    [d \in Dumps |->
        [process_name |-> IF d = "ff1" THEN "firefox" ELSE "worker",
         user_id      |-> IF d = "wk2" THEN "0" ELSE "1000",
         boot_id      |-> "boot"]]

MCTimestamp == [d \in Dumps |-> 1]

MCPasswd == [name \in {"dev"} |-> "1000"]

MCContexts ==
    {EmptyContext, [EmptyContext EXCEPT !.signal = "SIGSEGV"]}

Program == [Unset EXCEPT !.process_name = {{"firefox"}}, !.keep_count = 2]
User    == [Unset EXCEPT !.user_name = {"dev"}, !.group_by = {"signal"}]
Crash   == [Unset EXCEPT !.signal = {"SIGSEGV"}, !.user_id = {"0"}]
Rest    == [Unset EXCEPT !.keep_count = 1]
Ghost   == [User EXCEPT !.user_name = {"ghost"}]
Verbose == [Rest EXCEPT !.process_name = {{}}]
Unknown == [Program EXCEPT !.group_by = {"comm"}]
Bracket == [Rest EXCEPT !.executable_path = {{"/opt/["}}]

Misspelt == Rest @@ [proces_name |-> {{"firefox"}}]
Negative == [Rest EXCEPT !.keep_count = -1]
Nobody  == [Crash EXCEPT !.user_id = {"-2"}]

MCRawRules ==
    {Program, User, Crash, Rest,
     Ghost, Verbose, Unknown, Bracket, Misspelt, Negative, Nobody}

MCUids == {"0", "1000"}

\* The glob that accepts no name of 15 bytes.
MCTooLong == {{}}

\* A class of characters that is not closed.
MCMalformed == {{"/opt/["}}
=============================================================================
