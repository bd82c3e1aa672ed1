----------------------------- MODULE MCDevices -----------------------------
(***************************************************************************)
(* What has callbacks in interrupts, the drivers Gpio and I2cTarget and    *)
(* Timer with the kernel object it comes from, and Devicetree, which       *)
(* generates the functions that devices come from, for TLC.  They share no *)
(* state, so an initial state chooses the one that is in use.              *)
(***************************************************************************)
EXTENDS Gpio, I2cTarget, Devicetree, Timer, TLC

VARIABLE device

Symmetry ==
    Permutations(Getters) \cup Permutations(Addrs) \cup Permutations(Labels)

DevicesInit ==
    /\ Init /\ I2cInit /\ DtInit /\ TimerInit
    /\ device \in {"gpio", "i2c", "devicetree", "timer"}
    /\ device # "devicetree" => pass = "write"

DevicesNext ==
    /\ \/ /\ device = "gpio" /\ Next
          /\ UNCHANGED <<i2cVars, dtVars, allVars>>
       \/ /\ device = "i2c" /\ I2cNext
          /\ UNCHANGED <<vars, dtVars, allVars>>
       \/ /\ device = "devicetree" /\ DtNext
          /\ UNCHANGED <<vars, i2cVars, allVars>>
       \/ /\ device = "timer" /\ TimerNext
          /\ UNCHANGED <<vars, i2cVars, dtVars>>
    /\ UNCHANGED device

DevicesSpec ==
    DevicesInit /\ [][DevicesNext]_<<vars, i2cVars, dtVars, allVars, device>>
=============================================================================
