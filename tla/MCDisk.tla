------------------------------- MODULE MCDisk -------------------------------
(* What is written to the data directory beside the library: the parts      *)
(* share no state, so that a behaviour takes one of them.                   *)
EXTENDS BackendInstall, DiskReservations, Captures, VoiceSnapshots, Archives

CONSTANTS o1, o2, l1, l2, l3, wav, webm, r1, r2, t1, t2, v1, v2, q1, e1, e2, e3, p1, p2, g1, x1, x2, theRow, theWav, theAvatar

VARIABLE part

diskVars == <<part, vars, reservationVars, captureVars, snapshotVars, archiveVars>>

DiskInit ==
    /\ part \in {"install", "reservations", "captures", "snapshots", "imports", "exports"}
    /\ Init /\ ReservationsInit /\ CapturesInit /\ VoiceSnapshotsInit /\ ArchivesInit
    /\ part # "install" => windows /\ dirs["live"] = Absent
    /\ part # "snapshots" => \A p \in Profiles : voice[p] = v1

DiskNext ==
    /\ UNCHANGED part
    /\ \/ part = "install" /\ Next /\ UNCHANGED <<reservationVars, captureVars, snapshotVars, archiveVars>>
       \/ part = "reservations" /\ ReservationsNext /\ UNCHANGED <<vars, captureVars, snapshotVars, archiveVars>>
       \/ part = "captures" /\ CapturesNext /\ UNCHANGED <<vars, reservationVars, snapshotVars, archiveVars>>
       \/ part = "snapshots" /\ VoiceSnapshotsNext /\ UNCHANGED <<vars, reservationVars, captureVars, archiveVars>>
       \/ /\ \/ part = "imports" /\ ImportsNext
             \/ part = "exports" /\ ExportsNext
             \/ part \in {"imports", "exports"} /\ Kill
          /\ UNCHANGED <<vars, reservationVars, captureVars, snapshotVars>>

DiskSpec == DiskInit /\ [][DiskNext]_diskVars

(* Only the ledger of free space. *)
LedgerSpec == DiskInit /\ part = "reservations" /\ [][DiskNext]_diskVars

=============================================================================
