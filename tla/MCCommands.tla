----------------------------- MODULE MCCommands -----------------------------
(***************************************************************************)
(* Every command, alone and in both halves of a pipe; a pipe buffer that   *)
(* holds MEM and truncates HELP.  The readings have zeros, numbers of full *)
(* and of less than full width, and sizes on both sides of each unit.      *)
(***************************************************************************)
EXTENDS Commands

MCCommandSet ==
  {<<name>> : name \in Names}
    \cup {<<"ECHO", "text">>, <<"COLOR", "1">>, <<"COLOR", "a", "E">>,
          <<"COLOR", "f", "g">>, <<"COLOR", "1", "2", "g">>}
MCLines == {<<a>> : a \in MCCommandSet} \cup (MCCommandSet \X MCCommandSet)

MCReadings ==
  {[total |-> 2147479552, free |-> 1073741824, heap_used |-> 0,
    heap_free |-> 1023, day |-> 1, month |-> 12, year |-> 2026, hour |-> 0,
    minute |-> 9, second |-> 59, vendor |-> "A", features |-> {"FPU", "SSE3"}],
   [total |-> 134217728, free |-> 133169152, heap_used |-> 1048575,
    heap_free |-> 1048576, day |-> 31, month |-> 1, year |-> 999, hour |-> 23,
    minute |-> 10, second |-> 0, vendor |-> "B", features |-> {}]}

=============================================================================
