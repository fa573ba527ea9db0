-------------------------------- MODULE Errno --------------------------------
(***************************************************************************)
(* The error numbers of <linux/errno.h> that the file system returns.      *)
(* Functions of the kernel return them negated.                            *)
(***************************************************************************)
EXTENDS Integers

EPERM     == 1
ENOENT    == 2
ENOMEM    == 12
EFAULT    == 14
EEXIST    == 17
ENOTDIR   == 20
EISDIR    == 21
EINVAL    == 22
EFBIG     == 27
ENOSPC    == 28
ENOTEMPTY == 39
=============================================================================
