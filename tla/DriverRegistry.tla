--------------------------- MODULE DriverRegistry ----------------------------
(***************************************************************************)
(* Which drivers a build of the library has in it, and which of them       *)
(* __drm_ex_driver_get() offers to MiniGUI.  The two are decided apart:    *)
(* CMake lists the source files by the HAVE_* options it found, and the    *)
(* preprocessor selects the branches of the C code by the HAVE() macro.    *)
(***************************************************************************)
EXTENDS Sequences

CONSTANTS
  Name,    \* driver names MiniGUI asks for
  NULL     \* the answer for a driver that is not offered

VARIABLES
  found,     \* what find_package() and the header check found
  asked,     \* the name of the last call
  answer     \* what it returned: the driver operations, by name, or NULL

vars == <<found, asked, answer>>

\* macros that cmakeconfig.h defines as 1
Options(f) ==
  {o \in {"HAVE_LIBRGA", "HAVE_VMWGFX_DRM_H", "HAVE_DRM_INTEL"} :
     \/ o = "HAVE_LIBRGA" /\ "librga" \in f
     \/ o = "HAVE_VMWGFX_DRM_H" /\ "vmwgfx_drm.h" \in f
     \/ o = "HAVE_DRM_INTEL" /\ "libdrm_intel" \in f}

\* drivers whose source files are compiled and linked
Built ==
  {d \in {"rockchip", "vmwgfx", "i915"} :
     \/ d = "rockchip" /\ "HAVE_LIBRGA" \in Options(found)
     \/ d = "vmwgfx" /\ "HAVE_VMWGFX_DRM_H" \in Options(found)
     \/ d = "i915" /\ "HAVE_DRM_INTEL" \in Options(found)}

\* #define HAVE(FEATURE) (defined HAVE_##FEATURE && HAVE_##FEATURE)
Have(feature) == "HAVE_" \o feature \in Options(found)

\* the driver that the compiled branches of __drm_ex_driver_get() return
Offered(name) ==
  IF \/ name = "rockchip" /\ Have("HAVE_LIBRGA")
     \/ name = "vmwgfx" /\ Have("VMWGFX_DRM_H")
     \/ name = "i915" /\ Have("DRM_INTEL")
  THEN name ELSE NULL

Init ==
  /\ found \in SUBSET {"librga", "vmwgfx_drm.h", "libdrm_intel"}
  /\ asked = NULL /\ answer = NULL

Get(name) ==
  /\ asked' = name
  /\ answer' = Offered(name)
  /\ UNCHANGED found

Next == \E name \in Name : Get(name)

Spec == Init /\ [][Next]_vars

-----------------------------------------------------------------------------
\* A driver that is built into the library is offered when it is asked for
\* (drmdrivers/CMakeLists.txt, "if (HAVE_LIBRGA)", builds rockchip-drm.c).
BuiltIsOffered == asked \in Built => answer = asked
=============================================================================
