----------------------------- MODULE HdfDriver -----------------------------
(***************************************************************************)
(* Loading the two HDF devices of the virtual camera (DCameraHdfOperate):  *)
(* the camera service, then its provider, each waited for through a status *)
(* listener, then the listener of the provider and its death recipient.    *)
(* The statuses the waits look at are kept in the object and outlive the   *)
(* listener that sets them.                                                *)
(***************************************************************************)
EXTENDS Naturals

VARIABLES
  hdf,    \* at: where LoadDcameraHDFImpl is (while it waits the status listener is registered);
          \* up: the devices that run; asked: those told to load and not yet up; status:
          \* cameraServStatus_ and providerServStatus_ are START
  stale   \* history: a status was START for a device that did not run, or the devices were
          \* unloaded while they were being loaded

hdfVars == <<hdf, stale>>

Devices == {"camera", "provider"}
NoStatus == [d \in Devices |-> FALSE]
HdfTypeOK ==
  /\ hdf \in [at : {"idle", "camera", "provider", "bind", "ok", "failed"}, up : SUBSET Devices,
              asked : SUBSET Devices, status : [Devices -> BOOLEAN]]
  /\ stale \in BOOLEAN
HdfInit ==
  /\ hdf = [at |-> "idle", up |-> {}, asked |-> {}, status |-> NoStatus]
  /\ stale = FALSE

Untrue(h) == \E d \in Devices : h.status[d] /\ d \notin h.up

(* IDeviceManager::LoadDevice, which may fail; a device that is already up *)
(* is busy, which is no failure, and its status is told again.             *)
Asked(h, d) == [h EXCEPT !.asked = IF d \in h.up THEN @ ELSE @ \union {d},
                         !.status = IF d \in h.up THEN [@ EXCEPT ![d] = TRUE] ELSE @]
(* IDeviceManager::UnloadDevice; nobody listens to the status any more.    *)
Unasked(h, ds) == [h EXCEPT !.up = @ \ ds, !.asked = @ \ ds]
Failed(h) == [h EXCEPT !.at = "failed"]

(* LoadDevice up to the wait for the camera service.                       *)
LoadBegins ==
  /\ hdf.at = "idle"
  /\ \/ hdf' = Asked([hdf EXCEPT !.at = "camera"], "camera")
     \/ hdf' = Failed(hdf)
  /\ stale' = (stale \/ Untrue(hdf))

(* A device has started and the status listener hears of it.               *)
DeviceStarts(d) ==
  /\ d \in hdf.asked
  /\ hdf' = [hdf EXCEPT !.up = @ \union {d}, !.asked = @ \ {d},
                        !.status[d] = @ \/ hdf.at \in {"camera", "provider"}]
  /\ UNCHANGED stale

(* Slip: the camera service is not waited for.                             *)
WaitNoCameraService ==
  /\ hdf.at = "camera"
  /\ hdf' = Asked([hdf EXCEPT !.at = "provider"], "provider")
  /\ UNCHANGED stale

(* WaitLoadCameraService returns: the status is START, or the time is up.  *)
(* Then the provider is asked for, which may fail.                         *)
WaitLoadCameraService ==
  /\ hdf.at = "camera"
  /\ \/ hdf.status["camera"] /\ hdf' = Asked([hdf EXCEPT !.at = "provider"], "provider")
     \/ hdf.status["camera"] /\ hdf' = Failed(Unasked(hdf, {"camera"}))
     \/ ~hdf.status["camera"] /\ hdf' = Failed(hdf)
  /\ UNCHANGED stale

(* WaitLoadProviderService returns; a provider that is late stays loaded.  *)
WaitLoadProviderService ==
  /\ hdf.at = "provider"
  /\ hdf' = IF hdf.status["provider"] THEN [hdf EXCEPT !.at = "bind"]
            ELSE Failed(Unasked(hdf, {"camera"}))
  /\ UNCHANGED stale

(* UnLoadDevice, the only place where the statuses are reset.              *)
UnLoadDevice(h) == [Unasked(h, Devices) EXCEPT !.status = NoStatus]

(* RegisterHdfListener and AddHdfDeathBind: an error of either unloads the *)
(* devices; both fail when the provider does not run.                      *)
BindToProvider ==
  /\ hdf.at = "bind"
  /\ \/ "provider" \in hdf.up /\ hdf' = [hdf EXCEPT !.at = "ok"]
     \/ hdf' = Failed(UnLoadDevice(hdf))
  /\ UNCHANGED stale

(* UnLoadDcameraHDFImpl: every error is logged and the next step taken; no *)
(* lock keeps it from a load that is under way.                            *)
UnLoadDcameraHDFImpl ==
  /\ hdf' = UnLoadDevice(hdf)
  /\ stale' = (stale \/ hdf.at \in {"camera", "provider", "bind", "ok"})

(* The host of the devices dies, once; the statuses stay.                  *)
HostDies ==
  /\ hdf.up # {} /\ ~stale
  /\ hdf' = [hdf EXCEPT !.up = {}]
  /\ stale' = TRUE
=============================================================================
