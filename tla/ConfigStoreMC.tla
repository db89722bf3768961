--------------------------- MODULE ConfigStoreMC ----------------------------
(* Documents: a plain one, one without slots, one without a command, and   *)
(* one that names a state twice, once with a limit that is refused, and a  *)
(* backoff below the base delay, with its key in the environment.          *)
EXTENDS ConfigStore, TLC
CONSTANTS c1, c2

Literal(text) == [ref |-> FALSE, text |-> text]
Doc(key, command, policy, numbers, limits) ==
  [front |-> "map", kind |-> "linear", key |-> key, project |-> Literal("project"),
   command |-> command, policy |-> policy, numbers |-> numbers, limits |-> limits]
Limit(state, spelling, n) == [state |-> state, spelling |-> spelling, limit |-> n]

Environment == [LINEAR_API_KEY |-> "secret", EMPTY |-> ""]

Plain == Doc(Literal("key"), Null, Null, [max_retry_backoff_ms |-> 30], {})
NoSlots == Doc(Literal("key"), Null, Null, [max_concurrent_agents |-> 0], {})
NoCommand == Doc(Literal("key"), "", "list", [max_turns |-> 1], {})
Twice == Doc([ref |-> TRUE, text |-> "MISSING"], "codex", "string",
             [max_retry_backoff_ms |-> 2, port |-> Null],
             {Limit("todo", "Todo", 0), Limit("todo", "todo ", 2)})
Documents == {Plain, NoSlots, NoCommand, Twice}

TwoCallers == {c1, c2}
=============================================================================
