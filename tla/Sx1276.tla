------------------------------- MODULE Sx1276 -------------------------------
(***************************************************************************)
(* The SX1276 transceiver as its driver (firmware/tiny-sky/drivers) drives *)
(* it.  A radio is a record of the three things the tracker depends on:    *)
(* the operating mode, the modem selected by the LongRangeMode bit, and    *)
(* which of the two configured frequencies is in the FRF registers.  Each  *)
(* operator takes a radio and returns the radio a driver call leaves.      *)
(* Modem parameters, FIFO contents and IRQ flags are left out.             *)
(***************************************************************************)

Modes  == {"SLEEP", "STDBY", "TX"}
Modems == {"LORA", "FSK"}

\* "reset" is the FRF value after the reset pin, "channel" is
\* radio_frequency and "cw" is radio_cw_frequency of the settings.
Freqs  == {"reset", "channel", "cw"}

Radios == [mode : Modes, modem : Modems, freq : Freqs]

\* setMode replaces the mode bits of RegOpMode and keeps the others.
SetMode(r, m) == [r EXCEPT !.mode = m]

\* setLRMode first puts the chip to sleep: LongRangeMode can only be
\* changed there.
SetLRMode(r, m) == [r EXCEPT !.mode = "SLEEP", !.modem = m]

SetupLoRa(r) == SetLRMode(r, "LORA")

SetupFSK(r)  == SetLRMode(r, "FSK")

SetFrequencyHz(r, f) == [r EXCEPT !.freq = f]

\* writeFIFO enters standby, which ends any transmission in progress.
WriteFIFO(r) == SetMode(r, "STDBY")

StartTX(r) == SetMode(r, "TX")

Sleep(r)   == SetMode(r, "SLEEP")

\* init pulses the reset pin, so nothing of the old configuration survives.
InitRadio == SetMode([mode |-> "SLEEP", modem |-> "LORA", freq |-> "reset"],
                     "STDBY")

\* A radio that ground stations tuned to the channel can receive.
OnChannel(r) == r.modem = "LORA" /\ r.freq = "channel"

\* A radio that sends the carrier of the CW beacon.
IsBeacon(r) == r.modem = "FSK" /\ r.freq = "cw" /\ r.mode = "TX"
=============================================================================
