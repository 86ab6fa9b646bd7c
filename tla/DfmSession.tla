----------------------------- MODULE DfmSession -----------------------------
(***************************************************************************)
(* Enabling and disabling the Device Firmware Monitor (DFM/dfmSession.c),  *)
(* over reboots: the enabled flag in RAM, the copy a storage port may keep *)
(* of it, and the checks dfmStorage.c makes on the way to the port.        *)
(***************************************************************************)
CONSTANT
  PortKeepsSession  (* Whether the port stores the session: the Zephyr ports *)
                    (* do, the FLASH port of the demo fails both calls.      *)

VARIABLES
  ulDfmInitialized, (* RAM: set at the end of xDfmInitialize.                *)
  ulEnabled,        (* RAM: pxDfmSessionData->ulEnabled.                     *)
  storedEnabled,    (* Persistent: DfmSessionStorage_t.ulEnabled, or "none". *)
  remembered        (* Observed: since the last xDfmEnable(1), a             *)
                    (* xDfmDisable(1) has left DISABLED in storage.          *)

vars == <<ulDfmInitialized, ulEnabled, storedEnabled, remembered>>

\* xDfmStorageGetSession and the version check on what it read; "none" is
\* DFM_SESSION_STORAGE_DUMMY_VALUE.  The call fails unless DFM is enabled.
xDfmStorageGetSession(enabled) ==
  IF enabled = "ENABLED" /\ PortKeepsSession THEN storedEnabled ELSE "none"

\* What is stored after xDfmStorageStoreSession, whose result nobody looks at.
\* The call fails unless DFM is enabled.
xDfmStorageStoreSession(enabled, flag) ==
  IF enabled = "ENABLED" /\ PortKeepsSession THEN flag ELSE storedEnabled

-----------------------------------------------------------------------------
(* Operations, with DFM initialized or about to be.                        *)

\* xDfmSessionEnable, when the flag is `enabled'.
EnableFrom(enabled, override) ==
  LET stored == xDfmStorageGetSession(enabled)
      writes == enabled = "DISABLED"
                  /\ (stored = "none" \/ (override /\ stored = "DISABLED"))
      ok     == enabled = "ENABLED" \/ writes \/ stored = "ENABLED"
  IN  /\ storedEnabled' = IF writes THEN xDfmStorageStoreSession(enabled, "ENABLED")
                                    ELSE storedEnabled
      /\ ulEnabled' = IF ok THEN "ENABLED" ELSE enabled
      /\ remembered' = (remembered /\ ~(override /\ ok))

\* xDfmInitialize: the session starts disabled and is enabled, "but don't
\* override if disabled".
xDfmInitialize ==
  /\ ~ulDfmInitialized
  /\ ulDfmInitialized' = TRUE
  /\ EnableFrom("DISABLED", FALSE)

xDfmSessionEnable(override) ==
  /\ ulDfmInitialized
  /\ EnableFrom(ulEnabled, override)
  /\ UNCHANGED ulDfmInitialized

xDfmSessionDisable(remember) ==
  /\ ulDfmInitialized
  /\ storedEnabled' =
       IF xDfmStorageGetSession(ulEnabled) # "DISABLED" /\ remember
       THEN xDfmStorageStoreSession(ulEnabled, "DISABLED") ELSE storedEnabled
  /\ ulEnabled' = "DISABLED"
  /\ remembered' = (remembered \/ (remember /\ storedEnabled' = "DISABLED"))
  /\ UNCHANGED ulDfmInitialized

\* The device is reset; xDfmInitialize clears the RAM.
Reboot ==
  /\ ulDfmInitialized
  /\ ulDfmInitialized' = FALSE
  /\ ulEnabled' = "DISABLED"
  /\ UNCHANGED <<storedEnabled, remembered>>

-----------------------------------------------------------------------------
Init ==
  /\ ulDfmInitialized = FALSE
  /\ ulEnabled = "DISABLED"
  /\ storedEnabled = "none"
  /\ remembered = FALSE

Next ==
  \/ xDfmInitialize \/ Reboot
  \/ \E flag \in BOOLEAN : xDfmSessionEnable(flag) \/ xDfmSessionDisable(flag)

Spec == Init /\ [][Next]_vars

-----------------------------------------------------------------------------
\* "any reboots of the device will remember the "Disabled" flag and xDfmEnable(1)
\* must be called to override and re-enable DFM" (DFM/include/dfmSession.h:86),
\* on a port that keeps the session and for a flag that it has stored.
DisableIsRemembered == remembered => ulEnabled = "DISABLED"
=============================================================================
