------------------------------- MODULE MCUsb --------------------------------
(* Requests of every kind (SetFeature stands for the others that only set  *)
(* a flag or nothing); descriptors that end inside a packet and at the end *)
(* of one, asked for whole, in part and with room to spare.                *)
EXTENDS Usb

Ask(r, v, n) == [r |-> r, v |-> v, wLength |-> n]

MCRequests ==
  { Ask("SetAddress", 1, 0), Ask("SetConfiguration", 0, 0), Ask("SetConfiguration", 1, 0),
    Ask("GetConfiguration", 0, 1), Ask("GetLineEncoding", 0, 1), Ask("SetLineEncoding", 1, 1),
    Ask("SetFeature", 1, 0), Ask("GetStatus", 0, 2), Ask("Other", 0, 0),
    Ask("GetDescriptor", 4, 6), Ask("GetDescriptor", 4, 2), Ask("GetDescriptor", 3, 3) }
=============================================================================
