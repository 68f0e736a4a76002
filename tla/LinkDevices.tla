------------------------------ MODULE LinkDevices -----------------------------
(***************************************************************************)
(* The identities of paired phones, which the modules of the device link   *)
(* share (core/link_devices.py, new_device_id).                            *)
(***************************************************************************)
CONSTANTS
    Device,
    NoDevice

ASSUME DeviceAssumption == NoDevice \notin Device
=============================================================================
