------------------------------- MODULE Image -------------------------------
(***************************************************************************)
(* The life of a disk image: easy-fs-fuse packs the applications on the    *)
(* host, the kernel boots from what reached the image file and loads every *)
(* application (easy-fs-fuse/src/main.rs, os/src/fs/inode.rs).  The block  *)
(* cache is a static that is never dropped: when the packer ends, only     *)
(* what was synced is in the image.                                        *)
(***************************************************************************)
EXTENDS EasyFs

CONSTANTS
  FileSize,     \* sizes of the executables
  BUFFER_SZ     \* the buffer of read_all

ASSUME ImageAssumption == BUFFER_SZ \in Nat \ {0} /\ 0 \notin FileSize

VARIABLES
  host,         \* the executables on the host, by name
  apps,         \* the names that read_dir lists, those packed first
  stage,        \* what runs: the packer, or the kernel
  next,         \* the application in hand
  image,        \* what is in the image file
  offset, v     \* read_all: where it is and what it has collected

imageVars == <<vars, host, apps, stage, next, image, offset, v>>

Synced == [disk |-> disk, inodes |-> inodes, bitmaps |-> bitmaps]

ImageInit ==
  /\ Init
  /\ apps \in SetToSeqs(Name)
  /\ \E size \in [Name -> FileSize] : host = [n \in Name |-> [k \in 1 .. size[n] |-> 10 * n + k]]
  /\ stage = "create"
  /\ next = 1
  /\ image = Synced
  /\ offset = 0
  /\ v = <<>>

app == apps[next]

(* root_inode.create(app).unwrap(), which ends in block_cache_sync_all. *)
pack_create ==
  /\ stage = "create"
  /\ next \in DOMAIN apps
  /\ create(app)
  /\ stage' = "write"
  /\ image' = Synced'
  /\ UNCHANGED <<host, apps, next, offset, v>>

(* Fault: write_at does not sync. *)
pack_write_unsynced ==
  /\ stage = "write"
  /\ vfs_write_at(app, 0, host[app])
  /\ stage' = "create"
  /\ next' = next + 1
  /\ UNCHANGED <<host, apps, image, offset, v>>

(* inode.write_at(0, all_data), which ends in block_cache_sync_all. *)
pack_write ==
  /\ stage = "write"
  /\ vfs_write_at(app, 0, host[app])
  /\ stage' = "create"
  /\ next' = next + 1
  /\ image' = Synced'
  /\ UNCHANGED <<host, apps, offset, v>>

(* The packer has ended; the kernel mounts the image (ROOT_INODE). *)
boot ==
  /\ stage = "create"
  /\ next \notin DOMAIN apps
  /\ disk' = image.disk
  /\ inodes' = image.inodes
  /\ bitmaps' = image.bitmaps
  /\ efs' = open(super_block)
  /\ stage' = "list"
  /\ next' = 1
  /\ UNCHANGED <<request, panicked, ops, host, apps, image, offset, v>>

(* list_apps: ls returns the entries of the root, in order. *)
ls == [k \in 1 .. file_count |-> dirent(k - 1)[1]]

list_apps ==
  /\ stage = "list"
  /\ v' = ls
  /\ stage' = "listed"
  /\ UNCHANGED <<vars, host, apps, next, image, offset>>

(* open_file of the next application: a new OSInode, at offset 0. *)
open_app ==
  /\ stage \in {"listed", "loaded"}
  /\ next \in DOMAIN apps
  /\ Matching(app) # {}
  /\ stage' = "read_all"
  /\ offset' = 0
  /\ v' = <<>>
  /\ UNCHANGED <<vars, host, apps, next, image>>

(* One turn of the loop of read_all. *)
read_all ==
  /\ stage = "read_all"
  /\ LET part == read_at(disk, inodes[find(app)], offset, BUFFER_SZ)
     IN \/ /\ part = <<>>
           /\ stage' = "loaded"
           /\ next' = next + 1
           /\ UNCHANGED <<offset, v>>
        \/ /\ part # <<>>
           /\ offset' = offset + Len(part)
           /\ v' = v \o part
           /\ UNCHANGED <<stage, next>>
  /\ UNCHANGED <<vars, host, apps, image>>

(* Every application has been loaded: the only place where this may stop. *)
all_loaded ==
  /\ stage = "loaded"
  /\ next \notin DOMAIN apps
  /\ UNCHANGED imageVars

ImageNext ==
  pack_create \/ pack_write \/ boot \/ list_apps \/ open_app \/ read_all \/ all_loaded

ImageSpec == ImageInit /\ [][ImageNext]_imageVars

-----------------------------------------------------------------------------
(* The kernel lists the applications in the order they were packed, and    *)
(* read_all gives exec the executable that the host had, byte for byte,    *)
(* although only synced blocks survive the packer.                         *)
AppsIntact ==
  /\ panicked = "no"
  /\ stage = "listed" => v = apps
  /\ stage = "loaded" => v = host[apps[next - 1]]
============================================================================
