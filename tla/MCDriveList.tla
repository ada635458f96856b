----------------------------- MODULE MCDriveList -----------------------------
(* Two disks, a loop device and a pseudo file system; a disk mounted twice,  *)
(* below an ignored path, beside one, and under /Volumes.                    *)
EXTENDS DriveList

CONSTANTS sda, sdb, loop0, proc

FS(f, d, t) == [fsname |-> f, dir |-> d, type |-> t]

MCFilesystem ==
  {FS(sda, <<>>, "ext4"), FS(sda, <<"Volumes", "x">>, "ext4"),
   FS(sdb, <<"Volumes", "y">>, "ext4"), FS(sda, <<"boot", "efi">>, "ext4"),
   FS(sdb, <<"mnt">>, "fuseblk"), FS(loop0, <<"snap">>, "ext4"), FS(proc, <<"proc">>, "proc")}
=============================================================================
