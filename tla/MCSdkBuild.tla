----------------------------- MODULE MCSdkBuild -----------------------------
(* Two chips that share a kernel tree, with rules of each kind: for a      *)
(* business, an architecture, a board, all, and none.                      *)
EXTENDS SdkBuild

Select(chip, platform, business, arch, board) ==
  [CHIP |-> chip, PLATFORM |-> platform, BUSINESS |-> business, KERN_VER |-> "linux-3.10",
   ARCH |-> arch, BOARD |-> board]

SomeSelections ==
  {Select("sun50i", "android", "7.x", "arm64", ""),
   Select("sun50i", "dragonboard", "7.x", "arm64", "perf"),
   Select("sun8i", "dragonboard", "", "arm", "evb"),
   Select("sun8i", "linux", "", "arm", "perf"),
   Select("sun50i", "eyeseelinux", "7.x", "arm64", "perf")}

Rule(pattern, b, k) == [pattern |-> pattern, br |-> b, kern |-> k]

SomeRules ==
  {Rule(<<"sun50i", "android", "7.x">>, "sun50i", "android7"),
   Rule(<<"sun50i", "dragonboard">>, "xxx", "android4"),
   Rule(<<"sun8i", "dragonboard", "arm">>, "xxx", "android8"),
   Rule(<<"sun8i", "linux", "perf">>, "sun8i_perf", "linux8")}
=============================================================================
