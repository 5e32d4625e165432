---------------------------- MODULE CommandPolicy ----------------------------
(***************************************************************************)
(* Which commands send_console_command lets through on a server:           *)
(* CommandPolicy (policy/command-policy.ts), detectEggPreset               *)
(* (policy/egg-detector.ts) and PolicyResolver.forServer                   *)
(* (policy/policy-resolver.ts).                                            *)
(*                                                                         *)
(* The patterns are regular expressions over text.  A command is a         *)
(* representative of the commands that the same lists match, an egg is the *)
(* set of presets whose words occur in its docker image and invocation.    *)
(***************************************************************************)
CONSTANTS
  PolicyServers,   \* the servers that overrides may name
  DefaultMode,     \* COMMAND_POLICY_MODE
  DefaultPreset,   \* COMMAND_POLICY_PRESET
  AutoDetectEgg,   \* POLICY_AUTO_DETECT_EGG
  Overrides        \* what POLICY_OVERRIDES_PATH says of each server

PolicyMode == {"strict", "standard", "admin"}
PolicyPreset == {"generic", "minecraft", "rust"}

\* A field an override leaves out, and the preset of an egg that
\* detectEggPreset does not know
None == "none"

\* A mode or preset the code does not know: loadPolicyOverrides does not look
\* at what it reads.  (An empty text in an override is left out.)
Unknown == "unknown"

Override ==
  [mode: PolicyMode \cup {Unknown, None}, preset: PolicyPreset \cup {Unknown, None}]
Policies == [mode: PolicyMode \cup {Unknown}, preset: PolicyPreset \cup {Unknown}]
Egg == SUBSET {"minecraft", "rust"}

\* For callers that pass no details of the server
NoDetails == {None}

ASSUME CommandPolicyAssumption ==
  /\ DefaultMode \in PolicyMode
  /\ DefaultPreset \in PolicyPreset
  /\ AutoDetectEgg \in BOOLEAN
  /\ Overrides \in [PolicyServers -> Override]

-----------------------------------------------------------------------------
\* One command for each combination of lists that some command is on, and a
\* blank one
Command ==
  {" ", "give", "stop", "sudo", "list", "say stop", "say sudo",
   "seed", "time set stop", "time set sudo", "global.fps", "global.x stop", "global.x sudo"}

\* getStrictAllowlist: the two games extend the generic list, and any other
\* preset has just that.
Allowlist(preset) ==
  {"list", "say stop", "say sudo"} \cup
    CASE preset = "minecraft" -> {"seed", "time set stop", "time set sudo"}
      [] preset = "rust"      -> {"global.fps", "global.x stop", "global.x sudo"}
      [] OTHER                -> {}

\* getBlockedPatterns: "stop" is on the standard list only, "sudo" on both; a
\* mode that is unknown has no list, like strict.
AdminBlocked == {"sudo", "say sudo", "time set sudo", "global.x sudo"}
Blocklist(mode) ==
  CASE mode = "admin"    -> AdminBlocked
    [] mode = "standard" -> AdminBlocked \cup {"stop", "say stop", "time set stop", "global.x stop"}
    [] OTHER             -> {}

\* CommandPolicy.evaluate: a blank command is refused in every mode.  (So is one
\* of more than 512 characters, which the schema of the tool does not let in.)
Evaluate(policy, command) ==
  /\ command # " "
  /\ policy.mode = "strict" => command \in Allowlist(policy.preset)
  /\ command \notin Blocklist(policy.mode)

\* detectEggPreset tries Minecraft first.
DetectEggPreset(egg) ==
  CASE "minecraft" \in egg                       -> "minecraft"
    [] "minecraft" \notin egg /\ "rust" \in egg  -> "rust"
    [] OTHER                                     -> None

Otherwise(value, default) == IF value = None THEN default ELSE value

DefaultPolicy == [mode |-> DefaultMode, preset |-> DefaultPreset]

\* PolicyResolver.forServer, `egg` being NoDetails when none are passed:
\* the preset, then two cases that return the policy made at the start.
ForServer(override, egg) ==
  LET configured == Otherwise(override.preset, DefaultPreset)
      preset == IF override.preset = None /\ AutoDetectEgg /\ egg # NoDetails
                  THEN Otherwise(DetectEggPreset(egg), configured)
                  ELSE configured
      unchanged == override.mode = None /\ preset = DefaultPreset
  IN IF \/ unchanged /\ override.preset = None /\ ~AutoDetectEgg
        \/ unchanged /\ AutoDetectEgg /\ egg = NoDetails
       THEN DefaultPolicy
       ELSE [mode |-> Otherwise(override.mode, DefaultMode), preset |-> preset]

\* The policy a server is to have: what its override says, then what its egg
\* tells where that is wanted and known, then what is configured.
Meant(policy, override, egg) ==
  /\ override.mode # None => policy.mode = override.mode
  /\ override.mode = None => policy.mode = DefaultMode
  /\ CASE override.preset # None -> policy.preset = override.preset
       [] override.preset = None /\ AutoDetectEgg /\ "minecraft" \in egg ->
            policy.preset = "minecraft"
       [] override.preset = None /\ AutoDetectEgg /\ egg = {"rust"} ->
            policy.preset = "rust"
       [] OTHER -> policy.preset = DefaultPreset
=============================================================================
