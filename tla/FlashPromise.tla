----------------------------- MODULE FlashPromise -----------------------------
(***************************************************************************)
(* What an update of a device's flash (flash_update, modbus_ops.cpp)        *)
(* promises its caller: when it returns, the device holds the file; when it *)
(* throws, the device holds what it held before, or the file all the same.  *)
(* The device is never left with anything else.                             *)
(***************************************************************************)
CONSTANT Images             \* the files: content and checksum of each

VARIABLES told,             \* "idle", "busy", "completed" or "failed"
          image,            \* the file of the present update
          installed         \* what the device was told to start from

vars == <<told, image, installed>>

PromiseInit == told = "idle" /\ image \in Images /\ installed \in Images

Begin ==
  /\ told # "busy" /\ told' = "busy"
  /\ UNCHANGED <<image, installed>>

ReadFile ==
  /\ told = "busy" /\ image' \in Images
  /\ UNCHANGED <<told, installed>>

Complete ==
  /\ told = "busy" /\ told' = "completed"
  /\ installed' = image
  /\ UNCHANGED image

Throw ==
  /\ told = "busy" /\ told' = "failed"
  /\ installed' \in {installed, image}
  /\ UNCHANGED image

PromiseSpec == PromiseInit /\ [][Begin \/ ReadFile \/ Complete \/ Throw]_vars
===============================================================================
