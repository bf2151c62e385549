------------------------------- MODULE Config -------------------------------
(***************************************************************************)
(* The configuration of the agent (config.go of internal/agent): what the    *)
(* keys of /etc/fly/agent.env decide. The value of a required key is "good", *)
(* "bad" or "" (not set), that of the switch FLY_AGENT_AUTO_UPDATE is "",    *)
(* "on", "off" or "typo".                                                   *)
(***************************************************************************)
EXTENDS Naturals

RequiredKeys ==
  {"FLY_AGENT_URL", "FLY_AGENT_TOKEN", "FLY_AGENT_SERVER_ID", "STATE_DIRECTORY"}

\* parseSwitch: what is not known is also on.
ParseSwitch(v) == [on |-> v # "off", ok |-> v # "typo"]

\* ConfigFromEnv: an error for each required key that is not set or not valid, a
\* warning for a switch that is not known.
ConfigFromEnv(keys, switch) ==
  [errs |-> {k \in RequiredKeys : keys[k] # "good"},
   warned |-> ~ParseSwitch(switch).ok,
   autoUpdate |-> ParseSwitch(switch).on]

\* Config.Offset and updateSlot: they spread the servers over the minute and the
\* day, by the number of the server.
OffsetOf(serverId, minute) == serverId % minute
UpdateSlot(serverId, day) == serverId % day
=============================================================================
