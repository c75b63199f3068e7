----------------------------- MODULE MCDevices -----------------------------
(* Two devices, one of them named on the command line, and a pool of two.  *)
EXTENDS Devices

TtyAndUsb == {"tty", "usb"}
OnlyTty == <<"tty">>
=============================================================================
