------------------------------- MODULE Device -------------------------------
(***************************************************************************)
(* The parts of the device tree that share no state: two recoveries'       *)
(* graphics, the requests of the RIL and its parcels, strstr, the GPS      *)
(* shims, the loader of modules and the USB actions.  They run in          *)
(* different processes, so that every behaviour of the device is one of    *)
(* each part, and each is explored by itself: which one is chosen first.   *)
(***************************************************************************)
EXTENDS RecoveryScreen, MinuiGraphics, RecoveryText, RilRadio, RilParcels, Strstr, GpsShim, BootScripts

\* The ints of a signal strength: one is odd, as each is read by itself.
Readings == {-2147483647, -1, 0, 8, 9, 255, 1300, 2147483647}
OneOdd == {[[k \in 0..11 |-> 1] EXCEPT ![i] = x] : i \in 0..11, x \in Readings}

VARIABLE part

Init ==
  /\ part \in {"screen", "minui", "text", "radio", "parcels", "strstr", "gps", "modules", "usb"}
  /\ ScreenInit /\ MinuiInit /\ TextInit /\ RadioInit /\ ParcelInit /\ StrstrInit /\ GpsInit /\ BootInit

Next ==
  \/ part = "screen" /\ ScreenNext
     /\ UNCHANGED <<part, minuiVars, textVars, radioVars, parcelVars, strVars, gpsVars, bootVars>>
  \/ part = "minui" /\ MinuiNext
     /\ UNCHANGED <<part, screenVars, textVars, radioVars, parcelVars, strVars, gpsVars, bootVars>>
  \/ part = "text" /\ TextNext
     /\ UNCHANGED <<part, screenVars, minuiVars, radioVars, parcelVars, strVars, gpsVars, bootVars>>
  \/ part = "radio" /\ RadioNext
     /\ UNCHANGED <<part, screenVars, minuiVars, textVars, parcelVars, strVars, gpsVars, bootVars>>
  \/ part = "parcels" /\ ParcelNext
     /\ UNCHANGED <<part, screenVars, minuiVars, textVars, radioVars, strVars, gpsVars, bootVars>>
  \/ part = "strstr" /\ StrstrNext
     /\ UNCHANGED <<part, screenVars, minuiVars, textVars, radioVars, parcelVars, gpsVars, bootVars>>
  \/ part = "gps" /\ GpsNext
     /\ UNCHANGED <<part, screenVars, minuiVars, textVars, radioVars, parcelVars, strVars, bootVars>>
  \/ part = "modules" /\ LoaderNext
     /\ UNCHANGED <<part, screenVars, minuiVars, textVars, radioVars, parcelVars, strVars, gpsVars>>
  \/ part = "usb" /\ UsbNext
     /\ UNCHANGED <<part, screenVars, minuiVars, textVars, radioVars, parcelVars, strVars, gpsVars>>

vars == <<part, screenVars, minuiVars, textVars, radioVars, parcelVars, strVars, gpsVars, bootVars>>

Spec == Init /\ [][Next]_vars
=============================================================================
