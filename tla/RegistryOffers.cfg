SPECIFICATION Spec
CONSTANTS
  Name = {"rockchip", "vmwgfx", "i915", "vc4"}
  NULL = NULL
INVARIANT BuiltIsOffered
