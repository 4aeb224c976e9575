------------------------------ MODULE Dispatch ------------------------------
(***************************************************************************)
(* The command table of server.cpp and the check every command passes      *)
(* before its handler is entered.                                          *)
(***************************************************************************)
EXTENDS Config

\* Not mutating, tier observe.
ObserveCommands ==
    {"agent.info", "screenshot", "sysinfo", "ps", "crash_reports", "read_log", "titles",
     "title_icon", "running_app", "console_info", "net_info", "fatal_reports", "preflight",
     "journal", "watchdog", "controllers", "read_input", "wait_event", "record_input",
     "get_clocks", "get_brightness", "get_volume", "get_time", "get_sleep", "settings.get",
     "fs.list", "fs.read", "fs.stat", "fs.mounts", "fs.hash", "fs.freespace", "fs.find",
     "fs.grep", "save.list", "save.mount", "save.unmount", "nand.read", "album.list",
     "album.download", "i2c.read", "gpio.read", "cheat.status", "cheat.list", "cheat.meta",
     "cheat.mappings", "cheat.read_mem", "search.begin", "search.next", "search.results",
     "search.reset", "debug.modules"}

\* Not mutating, tier control.
QuietCommands ==
    {"input", "touch", "type_text", "debug.poll_events", "debug.read_mem", "debug.memmap",
     "debug.threads", "debug.registers", "debug.search", "debug.backtrace"}

\* Mutating, tier control.
ControlCommands ==
    {"launch", "terminate", "reboot", "shutdown", "agent.restart", "set_brightness",
     "set_auto_brightness", "set_volume", "set_sleep", "set_time", "set_wireless",
     "fs.write", "fs.delete", "fs.mkdir", "fs.rename", "fs.copy", "save.backup",
     "debug.attach", "debug.detach", "debug.continue", "debug.break", "cheat.toggle",
     "debug.set_watchpoint", "debug.set_breakpoint", "debug.clear_breakpoint"}

\* Mutating, tier invasive.
InvasiveCommands ==
    {"save.restore", "uninstall", "reboot_to_payload", "set_clocks", "debug.write_mem",
     "debug.write_registers", "debug.set_hwbp_raw", "cheat.write_mem", "cheat.freeze",
     "cheat.unfreeze", "i2c.write"}

Table == ObserveCommands \cup QuietCommands \cup ControlCommands \cup InvasiveCommands
Mutating(cmd) == cmd \in ControlCommands \cup InvasiveCommands
TierOf(cmd) == CASE cmd \in ObserveCommands -> "observe"
                 [] cmd \in InvasiveCommands -> "invasive"
                 [] OTHER -> "control"

\* Mutant: the tier the file has now, not the one the agent has started with.
CheckTierOfFile(cmd) ==
    /\ Rank(TierOf(cmd)) <= Rank(ParseTier(ini.tier))
    /\ cmd \notin {"i2c.write", "gpio.read", "i2c.read", "set_clocks"}
    /\ cmd \in {"uninstall", "save.restore"} => cfg.allow_nand_write

\* CheckTier; allow_hardware and allow_overclock are off, as by default.
CheckTier(cmd) ==
    /\ Rank(TierOf(cmd)) <= Rank(cfg.tier)
    /\ cmd \notin {"i2c.write", "gpio.read", "i2c.read", "set_clocks"}
    /\ cmd \in {"uninstall", "save.restore"} => cfg.allow_nand_write

\* The handler of a command is entered only past all of these; a mutating
\* command with dry_run is answered with a preview.
Entered(cmd, dry_run) ==
    /\ phase = "up"
    /\ cmd \in Table
    /\ CheckTier(cmd)
    /\ ~(Mutating(cmd) /\ dry_run)
=============================================================================
