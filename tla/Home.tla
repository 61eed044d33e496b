-------------------------------- MODULE Home --------------------------------
(***************************************************************************)
(* What is kept in the home directory: the package registry (Packages),    *)
(* the staged updater (Updater), the model settings (Settings), and backup *)
(* and restore (Backup), beside the attenuation of manifests (Capability). *)
(* They share no state.                                                    *)
(***************************************************************************)
EXTENDS Capability

CONSTANTS
    Names, Versions, Trusted, Offered, Stocked, Procs, NoFile, NoVersion,
    Builds, Healthy, Initial, Updaters,
    Models, Blob, NoModel, MaxAdds,
    Admins, Absent, MaxCommits, MaxEdits

VARIABLES
    disk, shadow, index, revoked, op, untested, overlapped, exposed,
    current, staged, u,
    config, vault, cmd, service, adapter, misfits, adds,
    home, wal, n, edits, open, job, bk, archive, damaged, rs,
    halved, tainted

P == INSTANCE Packages
U == INSTANCE Updater WITH Versions <- Builds
M == INSTANCE Settings
B == INSTANCE Backup WITH Blobs <- {Blob[m] : m \in Models}

(* Where the parts start: from no build or a healthy one, with packages     *)
(* that verify; names that no model and no version has; and vault files     *)
(* that are in a directory of their own.                                    *)
PackageFiles ==
    \A f \in Offered \cup Stocked : f.name \in Names /\ f.version \in Versions
StockVerifies ==
    \A f \in Stocked : /\ f # NoFile /\ f.readable /\ f.members = "match"
                       /\ f.sig = "good" /\ f.key \in Trusted
ASSUME HomeAssumption ==
    /\ Initial \in Healthy \cup {NoVersion} /\ NoModel \notin Models
    /\ PackageFiles /\ StockVerifies
    /\ Absent \notin Nat /\ \A m \in Models : Blob[m] \notin {"config", "db"}

-----------------------------------------------------------------------------

(* shadow_update: while updates come one at a time and nothing is installed *)
(* in place, the active package verifies at every step and what is promoted *)
(* was tested.                                                              *)
ShadowUpdateSafe == P!ShadowUpdateSafe

(* Updater.apply: the pointer names a healthy build at every moment, with   *)
(* overlapping updates and crashes.                                         *)
PointsAtHealthy == U!PointsAtHealthy

(* cmd_model_add and Config.save: a default model is configured and a       *)
(* secret that an entry names is in the vault, in the file and every copy;  *)
(* build_adapter fails only for a secret that was not given as it must be.  *)
SettingsClosed == M!SettingsClosed

(* restore_backup brings back what _collect archived and removes nothing;   *)
(* config.json names only secrets that the vault has, whatever overlapped.  *)
HomeStaysWhole == B!HomeStaysWhole
=============================================================================
