-------------------------------- MODULE Files --------------------------------
(***************************************************************************)
(* What the daemon keeps on disk, side by side, for any processes and any  *)
(* texts: its checkpoints and its configuration.  Neither reads the files  *)
(* of the other.                                                           *)
(***************************************************************************)
EXTENDS CheckpointLifecycle

CONSTANTS Texts, Default, System, Suggested, Absent, Broken, Nothing, MaxEdits, MaxTold

VARIABLES
    user, sug, cell, flag, reload, got, copy, reading, told, apply, patch, edits, edited, beside

Config == INSTANCE ConfigReload

ASSUME ConfigAssumption == Config!TextsAssumption /\ Config!EditsAssumption

-----------------------------------------------------------------------------
\* No reload is lost, neither on the daemon nor on the plugin that keeps a copy, whatever
\* file was half written when it was read: once the last request is served both have what is
\* on disk, or two reloads ran at once (lifecycle.rs:15-16, config/mod.rs:26-30,
\* mgd-kde/src/main.rs:177-185).
ReloadsSettle == Config!NewestHeld /\ Config!CopyCurrent
=============================================================================
