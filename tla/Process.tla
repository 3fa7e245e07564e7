----------------------------- MODULE Process -----------------------------
(***************************************************************************)
(* A process that has a Server: the program of server/main.cpp with its    *)
(* static COM initializer, its options and its exit code, or another       *)
(* program that runs and stops a server as often as it likes.              *)
(*                                                                         *)
(* External: CLI11, which looks for a call for help and for a mistake in   *)
(* argv in an order of its own, and COM, which counts its initializations. *)
(***************************************************************************)
EXTENDS Server

VARIABLES
  user,                \* "main", or "other" for a program of another author
  place,               \* of that program
  argv,                \* the options given
  shouldExit_,         \* of Config
  option,              \* connectionType_ of ServerConfig
  exitCode,
  com,                 \* CoInitializeEx calls of this thread not undone
  comBefore,           \* as many before this program's own
  shouldUninitialize_  \* of g_com_initializer

config == <<argv, shouldExit_, option>>
comVars == <<com, comBefore, shouldUninitialize_>>
vars   == <<serverVars, user, place, config, exitCode, comVars>>

Informing == {"help", "version"}
Mistakes  == {"unknown", "badPort"}
Options   == {"tcp", "udp"} \cup Informing \cup Mistakes

Init ==
  /\ NoServer
  /\ user \in {"main", "other"}
  /\ place = "static"
  /\ argv \in IF user = "main" THEN SUBSET Options ELSE {{}}
  /\ shouldExit_ = FALSE
  /\ option = "Default"
  /\ exitCode = "none"
  /\ com \in {0, 1} /\ comBefore = com
  /\ shouldUninitialize_ = FALSE

-----------------------------------------------------------------------------
(* ComInitializer *)

\* S_OK or, if somebody was earlier, S_FALSE: both succeed and both count.
Initialize ==
  /\ user = "main" /\ place = "static"
  /\ com' = com + 1
  /\ shouldUninitialize_' = TRUE
  /\ place' = "parse"
  /\ UNCHANGED <<serverVars, user, config, exitCode, comBefore>>

\* RPC_E_CHANGED_MODE: somebody initialized COM otherwise, and uninitializes.
ChangedMode ==
  /\ user = "main" /\ place = "static" /\ com > 0
  /\ shouldUninitialize_' = FALSE
  /\ place' = "parse"
  /\ UNCHANGED <<serverVars, user, config, exitCode, com, comBefore>>

\* An exception outside main has no handler.
InitializeThrows ==
  /\ user = "main" /\ place = "static"
  /\ place' = "terminated"
  /\ UNCHANGED <<serverVars, user, config, exitCode, comVars>>

\* Mutant: every initialization that did not throw is undone.
UninitializeAlways ==
  /\ place = "exit"
  /\ com' = com - 1
  /\ place' = "ended"
  /\ UNCHANGED <<serverVars, user, config, exitCode, comBefore, shouldUninitialize_>>

Uninitialize ==
  /\ place = "exit"
  /\ com' = IF shouldUninitialize_ THEN com - 1 ELSE com
  /\ place' = "ended"
  /\ UNCHANGED <<serverVars, user, config, exitCode, comBefore, shouldUninitialize_>>

-----------------------------------------------------------------------------
(* Config::parseArgs and ServerConfig::parseOptions *)

Return(code) == exitCode' = code /\ place' = "exit"

\* CLI::ParseError: args.exit() gives 0 for help and version, else its number.
ParseError(code) ==
  /\ place = "parse"
  /\ \/ code = "OK" /\ argv \cap Informing # {}
     \/ code = "ParseError" /\ argv \cap Mistakes # {}
  /\ shouldExit_' = TRUE
  /\ Return(code)
  /\ UNCHANGED <<serverVars, user, argv, option, comVars>>

ParsesWell == place = "parse" /\ argv \cap (Informing \cup Mistakes) = {}

\* parseOptions refuses both types at once.
RefuseOptions ==
  /\ ParsesWell
  /\ {"tcp", "udp"} \subseteq argv
  /\ shouldExit_' = TRUE
  /\ Return("ConfigurationError")
  /\ UNCHANGED <<serverVars, user, argv, option, comVars>>

\* Mutant: with both types given the last assignment wins.
ParseOptionsBoth ==
  /\ ParsesWell
  /\ option' = IF argv = {"tcp"} THEN "TCP" ELSE "UDP"
  /\ place' = "main"
  /\ UNCHANGED <<serverVars, user, argv, shouldExit_, exitCode, comVars>>

\* No option leaves no Default behind: it becomes UDP.
ParseOptions ==
  /\ ParsesWell
  /\ ~ {"tcp", "udp"} \subseteq argv
  /\ option' = IF "tcp" \in argv THEN "TCP" ELSE "UDP"
  /\ place' = "main"
  /\ UNCHANGED <<serverVars, user, argv, shouldExit_, exitCode, comVars>>

-----------------------------------------------------------------------------
(* main *)

\* Mutant: main returns the number it had from the parser, which was well.
RefuseTCPQuietly ==
  /\ place = "main" /\ option = "TCP"
  /\ Return("OK")
  /\ UNCHANGED <<serverVars, user, config, comVars>>

\* "TCP connection is not yet implemented"
RefuseTCP ==
  /\ place = "main" /\ option = "TCP"
  /\ Return("ConfigurationError")
  /\ UNCHANGED <<serverVars, user, config, comVars>>

MakeServer ==
  /\ place = "main" /\ option # "TCP"
  /\ Construct(option)
  /\ place' = "run"
  /\ UNCHANGED <<user, config, exitCode, comVars>>

CallRun ==
  /\ place = "run"
  /\ Run
  /\ place' = "serve"
  /\ UNCHANGED <<user, config, exitCode, comVars>>

\* run() returned, or threw: the server goes out of scope on either way.
Leave ==
  /\ user = "main" /\ place = "serve"
  /\ Destroy
  /\ Return(IF phase = "threw" THEN "ExceptionThrown" ELSE "OK")
  /\ UNCHANGED <<user, config, comVars>>

\* Anything in the try block may throw, for want of memory if for nothing else.
MainThrows ==
  /\ place \in {"parse", "main"}
  /\ Return("ExceptionThrown")
  /\ UNCHANGED <<serverVars, user, config, comVars>>

-----------------------------------------------------------------------------
(* Another program: servers of any type, in any order of run() and stop() *)

OtherMakes(type) ==
  /\ user = "other" /\ place = "static"
  /\ Construct(type)
  /\ place' = "serve"
  /\ UNCHANGED <<user, config, exitCode, comVars>>

OtherCalls ==
  /\ user = "other" /\ place = "serve"
  /\ Run \/ Stop
  /\ UNCHANGED <<user, place, config, exitCode, comVars>>

OtherLeaves ==
  /\ user = "other" /\ place = "serve"
  /\ Destroy
  /\ place' = "ended"
  /\ UNCHANGED <<user, config, exitCode, comVars>>

-----------------------------------------------------------------------------
\* run() goes on, or throws.
Serving ==
  /\ place = "serve"
  /\ Running \/ RunThrows
  /\ UNCHANGED <<user, place, config, exitCode, comVars>>

Next ==
  \/ Initialize \/ ChangedMode \/ InitializeThrows \/ Uninitialize
  \/ \E code \in {"OK", "ParseError"} : ParseError(code)
  \/ RefuseOptions \/ ParseOptions
  \/ RefuseTCP \/ MakeServer \/ CallRun \/ Leave \/ MainThrows
  \/ \E type \in Types : OtherMakes(type)
  \/ OtherCalls \/ OtherLeaves
  \/ Serving

Spec == Init /\ [][Next]_vars

-----------------------------------------------------------------------------
(* Correctness *)

\* Types; in particular no use count falls below zero.
TypeOK ==
  /\ phase \in {"none", "idle", "in", "out", "connect", "create", "running",
                "threw", "destroyed"}
  /\ connectionType_ \in Types
  /\ connection_ \in {None} \cup Connections
  /\ inPackets_ \in Queues \cup {None} /\ outPackets_ \in Queues \cup {None}
  /\ uses \in [Queues -> Nat]
  /\ user \in {"main", "other"}
  /\ place \in {"static", "terminated", "parse", "main", "run", "serve", "exit", "ended"}
  /\ argv \subseteq Options
  /\ shouldExit_ \in BOOLEAN /\ shouldUninitialize_ \in BOOLEAN
  /\ option \in Types
  /\ exitCode \in {"none", "OK", "ConfigurationError", "ExceptionThrown", "ParseError"}
  /\ com \in Nat /\ comBefore \in Nat

\* Whatever happened in between, the process undoes exactly the initialization
\* of COM that it made (lines 28-48 of ComInitializer.h).
ComBalanced == place = "ended" => com = comBefore

\* Who asked for TCP never gets a server that uses UDP in its stead, with
\* whatever other options (ServerConfig.cpp:20-36, main.cpp:52-63).
NoSilentFallback ==
  user = "main" /\ place \in {"run", "serve"} =>
    "tcp" \notin argv /\ connectionType_ = "UDP"

\* The exit code tells success from failure: it is OK only for a program that
\* printed what it was asked for or ran a server, and it names the culprit.
ExitCodeTellsWhy ==
  user = "main" /\ place = "ended" =>
    /\ exitCode = "OK" /\ argv \cap Informing = {} =>
         argv \cap (Mistakes \cup {"tcp"}) = {} /\ phase = "destroyed"
    /\ exitCode = "ConfigurationError" => "tcp" \in argv
    /\ exitCode = "ParseError" => argv \cap Mistakes # {} /\ phase = "none"
    /\ exitCode # "none"
=============================================================================
