-------------------------------- MODULE MCGc --------------------------------
(***************************************************************************)
(* Small instances of Gc: firefox dumps (two of them with one timestamp),  *)
(* a worker's dump and a file that is no dump, a journal that knows their  *)
(* executables and signals, and configurations over them.                  *)
(***************************************************************************)
EXTENDS Gc, TLC

IsFirefox(d) == d \in {"ff1", "ff2", "ff3"}

MCFacts ==
    [d \in Dumps |->
        [process_name |-> IF IsFirefox(d) THEN "firefox" ELSE "worker",
         user_id      |-> "1000",
         boot_id      |-> "boot"]]

MCTimestamp == [d \in Dumps |-> CASE d = "ff1" -> 1 [] d = "wk1" -> 3 [] OTHER -> 2]

MCEntries ==
    [d \in Dumps |->
        [executable_path |-> IF IsFirefox(d) THEN "/usr/lib/firefox" ELSE "/opt/w",
         command_line    |-> None,
         signal          |-> IF d = "ff3" THEN "SIGABRT" ELSE "SIGSEGV"]]

MCPasswd == [name \in {"dev"} |-> "1000"]

NoFields ==
    [process_name |-> {}, executable_path |-> {}, command_line |-> {},
     signal |-> {}, user_id |-> {}, user_name |-> {}, group_by |-> {},
     keep_count |-> None]

\* process_name = ["firefox"], keep_count = n
Firefox(n) == [NoFields EXCEPT !.process_name = {{"firefox"}}, !.keep_count = n]

\* executable_path = ["/opt/*"], without a cap
Workers == [NoFields EXCEPT !.executable_path = {{"/opt/w"}}]

\* user_name = ["dev"], group_by = ["process_name", "signal"], keep_count = 1
PerSignal == [NoFields EXCEPT !.user_name = {"dev"},
                              !.group_by = {"process_name", "signal"},
                              !.keep_count = 1]

CompiledConfig(age, dry, rules) ==
    [minimum_age |-> age, dry_run |-> dry,
     rules |-> [i \in DOMAIN rules |-> CompiledRule(rules[i])]]

\* One capped rule, everything else unmatched.
MCFirefox == {CompiledConfig(1, FALSE, <<Firefox(1)>>)}

\* The journal decides between keeping and removing.
MCWorkers == {CompiledConfig(1, FALSE, <<Workers>>)}

\* The journal decides the rule, and in the last one only the bucket.
MCMixed == {CompiledConfig(1, FALSE, <<Firefox(2), Workers>>),
            CompiledConfig(0, TRUE, <<Workers, Firefox(1)>>),
            CompiledConfig(0, FALSE, <<PerSignal>>)}
=============================================================================
